---------------------------- MODULE Spec2Model ----------------------------
(***************************************************************************)
(* Model of nf5lab/ebus: the event-envelope layer over a publish/subscribe *)
(* transport.  The module covers                                           *)
(*   - identity values and Metadata (event.go),                            *)
(*   - the process-wide factory registry and its RWMutex (factory.go),     *)
(*   - publisher.Publish (publisher.go),                                   *)
(*   - subscriber.decodeEvent and the delivery callback built by           *)
(*     subscriber.Subscribe (subscriber source).                          *)
(* Strings are sequences of one-character strings so that TrimSpace,       *)
(* ToLower, HasPrefix and concatenation are computed, not assumed.         *)
(* Errors are chains (sequences) of error kinds: fmt.Errorf("...%w", err)  *)
(* prepends a kind to the wrapped chain; the nil error is the empty chain. *)
(* Go pointers that may be nil are options: <<>> is nil, <<x>> points to x.*)
(***************************************************************************)
EXTENDS Integers, Sequences, FiniteSets, TLC

(***************************************************************************)
(* Strings                                                                 *)
(***************************************************************************)
UpperChars == <<"A","B","C","D","E","F","G","H","I","J","K","L","M",
                "N","O","P","Q","R","S","T","U","V","W","X","Y","Z">>

LowerChars == <<"a","b","c","d","e","f","g","h","i","j","k","l","m",
                "n","o","p","q","r","s","t","u","v","w","x","y","z">>

SpaceChars == {" ", "\t", "\n", "\r"}

ToLowerChar(c) ==
    IF \E i \in 1..Len(UpperChars) : UpperChars[i] = c
    THEN LowerChars[CHOOSE i \in 1..Len(UpperChars) : UpperChars[i] = c]
    ELSE c

\* strings.ToLower
ToLower(s) == [i \in 1..Len(s) |-> ToLowerChar(s[i])]

\* strings.TrimSpace: drop leading and trailing white space
TrimSpace(s) ==
    LET idx == {i \in 1..Len(s) : s[i] \notin SpaceChars}
    IN  IF idx = {} THEN <<>>
        ELSE LET lo == CHOOSE i \in idx : \A j \in idx : i <= j
                 hi == CHOOSE i \in idx : \A j \in idx : j <= i
             IN  SubSeq(s, lo, hi)

\* strings.HasPrefix
HasPrefix(s, prefix) ==
    /\ Len(prefix) <= Len(s)
    /\ SubSeq(s, 1, Len(prefix)) = prefix

Range(s) == {s[i] : i \in 1..Len(s)}

(***************************************************************************)
(* Errors                                                                  *)
(***************************************************************************)
NoErr == <<>>

\* fmt.Errorf with no wrapped error
Err(kind) == <<kind>>

\* fmt.Errorf("...: %w", err)
Wrap(kind, err) == <<kind>> \o err

\* errors.Is
Is(err, target) == target \in Range(err)

ErrEventFactoryExists == "ErrEventFactoryExists"

ErrEventFactoryNotFound == "ErrEventFactoryNotFound"

(***************************************************************************)
(* Identity values and Metadata (event.go)                                 *)
(***************************************************************************)
ContentTypeJson ==
    <<"a","p","p","l","i","c","a","t","i","o","n","/","j","s","o","n">>

\* Normalize that trims and keeps the letter case
NormalizeKeepCase(v) == TrimSpace(v)

\* SchemaVersion.Normalize, EventSource.Normalize, EventType.Normalize
Normalize(v) == ToLower(TrimSpace(v))

\* SchemaVersion.IsEmpty, EventSource.IsEmpty, EventType.IsEmpty
IsEmpty(v) == Len(Normalize(v)) = 0

\* Metadata.Normalize
MetaNormalize(meta) ==
    [meta EXCEPT !.SchemaVersion = Normalize(meta.SchemaVersion),
                 !.EventId       = TrimSpace(meta.EventId),
                 !.EventSource   = Normalize(meta.EventSource),
                 !.EventType     = Normalize(meta.EventType)]

maxFutureSecs == 300

\* MetaCheck with no tolerance at the bound: now + maxFutureSecs is refused
MetaCheckStrict(meta, now) ==
    IF IsEmpty(meta.SchemaVersion) THEN Err("EmptySchemaVersion")
    ELSE IF Len(meta.EventId) = 0 THEN Err("EmptyEventId")
    ELSE IF IsEmpty(meta.EventSource) THEN Err("EmptyEventSource")
    ELSE IF IsEmpty(meta.EventType) THEN Err("EmptyEventType")
    ELSE IF meta.EventTime <= 0 THEN Err("EventTimeNotPositive")
    ELSE IF meta.EventTime >= now + maxFutureSecs THEN Err("EventTimeTooFarAhead")
    ELSE NoErr

\* The checks of Metadata.Validate on the normalized metadata; now is the
\* value of time.Now().Unix() read by the call.
MetaCheck(meta, now) ==
    IF IsEmpty(meta.SchemaVersion) THEN Err("EmptySchemaVersion")
    ELSE IF Len(meta.EventId) = 0 THEN Err("EmptyEventId")
    ELSE IF IsEmpty(meta.EventSource) THEN Err("EmptyEventSource")
    ELSE IF IsEmpty(meta.EventType) THEN Err("EmptyEventType")
    ELSE IF meta.EventTime <= 0 THEN Err("EventTimeNotPositive")
    ELSE IF meta.EventTime > now + maxFutureSecs THEN Err("EventTimeTooFarAhead")
    ELSE NoErr

\* MetaValidate that normalizes a copy: a receiver that fails is left as given
MetaValidateOnCopy(meta, now) ==
    [meta |-> IF MetaCheck(MetaNormalize(meta), now) = NoErr
              THEN MetaNormalize(meta) ELSE meta,
     err |-> MetaCheck(MetaNormalize(meta), now)]

\* Metadata.Validate: normalizes the receiver in place, then checks it.
\* The result holds the receiver after the call and the returned error.
MetaValidate(meta, now) ==
    LET m == MetaNormalize(meta)
    IN  [meta |-> m, err |-> MetaCheck(m, now)]


(***************************************************************************)
(* Factory registry (factory.go)                                           *)
(*                                                                         *)
(* A factory is named by a string; NilFactory is the nil func value.  The  *)
(* registry is a function from composite keys to factories.               *)
(***************************************************************************)
NilFactory == "nil"

EmptyRegistry == << >>

\* buildEventFactoryKey
buildEventFactoryKey(scmVersion, evtSource, evtType) ==
    scmVersion \o <<"|">> \o evtSource \o <<"|">> \o evtType

\* The part of RegisterEventFactory, GetEventFactory and ExistsEventFactory
\* that runs before the lock is taken: normalize the three components,
\* return early on an empty one, otherwise build the key.
KeyCheck(scmVersion, evtSource, evtType) ==
    LET v == Normalize(scmVersion)
        s == Normalize(evtSource)
        t == Normalize(evtType)
    IN  IF IsEmpty(v) THEN [err |-> Err("EmptySchemaVersion"), key |-> <<>>]
        ELSE IF IsEmpty(s) THEN [err |-> Err("EmptyEventSource"), key |-> <<>>]
        ELSE IF IsEmpty(t) THEN [err |-> Err("EmptyEventType"), key |-> <<>>]
        ELSE [err |-> NoErr, key |-> buildEventFactoryKey(v, s, t)]

\* RegisterEventFactory before the lock: the key checks, then the nil check
RegisterPre(scmVersion, evtSource, evtType, evtFactory) ==
    LET kc == KeyCheck(scmVersion, evtSource, evtType)
    IN  IF kc.err # NoErr THEN kc
        ELSE IF evtFactory = NilFactory
             THEN [err |-> Err("NilFactory"), key |-> <<>>]
        ELSE kc

\* The map read `_, exists := eventFactoryRegistry[factoryKey]`
RegistryHas(reg, factoryKey) == factoryKey \in DOMAIN reg

\* RegisterStore with the assignment done also when the key exists
RegisterStoreAlways(reg, factoryKey, evtFactory, exists) ==
    [reg |-> (factoryKey :> evtFactory) @@ reg,
     err |-> IF exists THEN Err(ErrEventFactoryExists) ELSE NoErr]

\* The branch of RegisterEventFactory on that read: return the error, or
\* assign eventFactoryRegistry[factoryKey] = evtFactory
RegisterStore(reg, factoryKey, evtFactory, exists) ==
    IF exists
    THEN [reg |-> reg, err |-> Err(ErrEventFactoryExists)]
    ELSE [reg |-> (factoryKey :> evtFactory) @@ reg, err |-> NoErr]

\* RegisterLocked without the exists check: the map entry is assigned always
RegisterLockedOverwrite(reg, factoryKey, evtFactory) ==
    [reg |-> (factoryKey :> evtFactory) @@ reg, err |-> NoErr]

\* RegisterEventFactory under the write lock
RegisterLocked(reg, factoryKey, evtFactory) ==
    RegisterStore(reg, factoryKey, evtFactory, RegistryHas(reg, factoryKey))

\* GetLocked without the exists check: the map's zero value (a nil factory)
\* is returned for a missing key, with a nil error
GetLockedNoCheck(reg, factoryKey) ==
    [factory |-> IF factoryKey \in DOMAIN reg THEN reg[factoryKey] ELSE NilFactory,
     err |-> NoErr]

\* GetEventFactory under the read lock
GetLocked(reg, factoryKey) ==
    IF factoryKey \in DOMAIN reg
    THEN [factory |-> reg[factoryKey], err |-> NoErr]
    ELSE [factory |-> NilFactory, err |-> Err(ErrEventFactoryNotFound)]

\* ExistsLocked that reports a key only when it holds a factory of type A
ExistsLockedTypeA(reg, factoryKey) ==
    factoryKey \in DOMAIN reg /\ reg[factoryKey] = "fA"

\* ExistsEventFactory under the read lock
ExistsLocked(reg, factoryKey) == factoryKey \in DOMAIN reg

\* Byte order of the characters the model uses
Digits == <<"0", "1", "2", "3", "4", "5", "6", "7", "8", "9">>

Ascii == <<"\t", "\n", "\r", " ", "-", "/">> \o Digits \o <<";", "=">>
         \o UpperChars \o LowerChars \o <<"|">>

CharCode(c) == CHOOSE i \in 1..Len(Ascii) : Ascii[i] = c

\* String comparison a < b, as Go compares strings
RECURSIVE StrLess(_, _)
StrLess(a, b) ==
    IF Len(b) = 0 THEN FALSE
    ELSE IF Len(a) = 0 THEN TRUE
    ELSE IF a[1] = b[1] THEN StrLess(Tail(a), Tail(b))
    ELSE CharCode(a[1]) < CharCode(b[1])

\* slices.Sort of a set of distinct strings
RECURSIVE SortKeys(_)
SortKeys(keys) ==
    IF keys = {} THEN <<>>
    ELSE LET least == CHOOSE k \in keys : \A o \in keys \ {k} : StrLess(k, o)
         IN  <<least>> \o SortKeys(keys \ {least})

\* ListEventFactoryKeys under the read lock
ListLocked(reg) == SortKeys(DOMAIN reg)

\* RegisterEventFactory as one call
RegisterEventFactory(reg, scmVersion, evtSource, evtType, evtFactory) ==
    LET pre == RegisterPre(scmVersion, evtSource, evtType, evtFactory)
    IN  IF pre.err # NoErr THEN [reg |-> reg, err |-> pre.err]
        ELSE RegisterLocked(reg, pre.key, evtFactory)

\* GetEventFactory as one call
GetEventFactory(reg, scmVersion, evtSource, evtType) ==
    LET pre == KeyCheck(scmVersion, evtSource, evtType)
    IN  IF pre.err # NoErr THEN [factory |-> NilFactory, err |-> pre.err]
        ELSE GetLocked(reg, pre.key)

\* ExistsEventFactory as one call
ExistsEventFactory(reg, scmVersion, evtSource, evtType) ==
    LET pre == KeyCheck(scmVersion, evtSource, evtType)
    IN  IF pre.err # NoErr THEN FALSE
        ELSE ExistsLocked(reg, pre.key)

\* ListEventFactoryKeys as one call
ListEventFactoryKeys(reg) == ListLocked(reg)

(***************************************************************************)
(* Events (the Event interface of event.go, implemented by applications)   *)
(*                                                                         *)
(* The model's concrete event type is a struct with an exported *Metadata  *)
(* field and one exported data field.  Metadata() returns the pointer held *)
(* by the struct, so a Validate() through it normalizes the event's own    *)
(* metadata.  Validate() rejects the data value "invalid"; json.Marshal    *)
(* fails on the data value "nan" (an unsupported value).                   *)
(***************************************************************************)
NilPtr == <<>>

Ptr(x) == <<x>>

Deref(p) == p[1]

\* Event.Validate of the model's event type
EventValidate(event) ==
    IF event.Data = "invalid" THEN Err("InvalidData") ELSE NoErr

\* Event.Metadata of the model's event type
EventMetadata(event) == event.Meta

\* Event is an interface: Validate() of event type V panics
EventValidatePanics(event) == event.Type = "V"

\* Metadata() of event type M panics
EventMetadataPanics(event) == event.Type = "M"

(***************************************************************************)
(* encoding/json on the types of event.go.  JSON text is modelled by its   *)
(* syntax tree: a record tagged with the kind of JSON value.               *)
(***************************************************************************)
JsonNull == [t |-> "null"]

JsonGarbage == [t |-> "garbage"]

\* len(data) == 0
EmptyBytes == [t |-> "empty"]

\* json.Marshal of a *Metadata, by the field tags of the Metadata struct
MarshalMetadata(metaPtr) ==
    IF metaPtr = NilPtr THEN JsonNull
    ELSE LET m == Deref(metaPtr)
         IN  [t |-> "object",
              schemaVersion |-> m.SchemaVersion, eventId |-> m.EventId,
              eventSource |-> m.EventSource, eventType |-> m.EventType,
              eventTime |-> m.EventTime]

\* json.Unmarshal of a JSON value into a *Metadata field
UnmarshalMetadata(json) ==
    IF json.t = "object"
    THEN Ptr([SchemaVersion |-> json.schemaVersion, EventId |-> json.eventId,
              EventSource |-> json.eventSource, EventType |-> json.eventType,
              EventTime |-> json.eventTime])
    ELSE NilPtr

\* json.Marshal(event) in Publish
MarshalEvent(event) ==
    IF event.Data = "nan"
    THEN [bytes |-> EmptyBytes, err |-> Err("UnsupportedValue")]
    ELSE [bytes |-> [t |-> "event", meta |-> MarshalMetadata(event.Meta),
                     data |-> event.Data],
          err |-> NoErr]

\* json.Unmarshal(envelope.Payload, event) in decodeEvent: fills the fresh
\* instance; a JSON object without the event's fields leaves it as made.
UnmarshalEvent(bytes, instance) ==
    IF bytes.t = "event"
    THEN [event |-> [instance EXCEPT !.Meta = UnmarshalMetadata(bytes.meta),
                                     !.Data = bytes.data],
          err |-> NoErr]
    ELSE IF bytes.t = "emptyobject"
    THEN [event |-> instance, err |-> NoErr]
    ELSE [event |-> instance, err |-> Err("SyntaxError")]

\* json.Marshal(envelope) in Publish: the payload bytes become a base64 string
MarshalEnvelope(envelope) ==
    [t |-> "envelope", metadata |-> MarshalMetadata(envelope.Metadata),
     payload |-> [t |-> "base64", of |-> envelope.Payload]]

\* json.Unmarshal(data, &envelope) in decodeEvent
UnmarshalEnvelope(bytes) ==
    IF bytes.t = "envelope"
    THEN [envelope |-> [Metadata |-> UnmarshalMetadata(bytes.metadata),
                        Payload  |-> IF bytes.payload.t = "base64"
                                     THEN bytes.payload.of ELSE EmptyBytes],
          err |-> NoErr]
    ELSE [envelope |-> [Metadata |-> NilPtr, Payload |-> EmptyBytes],
          err |-> Err("SyntaxError")]

BytesLen0(bytes) == bytes.t = "empty"

(***************************************************************************)
(* Headers (headers source: metadataToHeaders)                             *)
(***************************************************************************)
HeaderSchemaVersion == "x-event-schema-version"

HeaderEventId == "x-event-id"

HeaderEventSource == "x-event-source"

HeaderEventType == "x-event-type"

HeaderEventTime == "x-event-time"

\* strconv.FormatInt(n, 10)
RECURSIVE FormatNat(_)
FormatNat(n) ==
    IF n < 10 THEN <<Digits[n + 1]>>
    ELSE FormatNat(n \div 10) \o <<Digits[(n % 10) + 1]>>

FormatInt(n) == IF n < 0 THEN <<"-">> \o FormatNat(0 - n) ELSE FormatNat(n)

\* metadataToHeaders without the x-event-time header
metadataToHeadersNoTime(metaPtr) ==
    IF metaPtr = NilPtr THEN << >>
    ELSE [h \in {x \in {HeaderSchemaVersion, HeaderEventId, HeaderEventSource,
                        HeaderEventType} :
                    \/ x = HeaderSchemaVersion /\ ~IsEmpty(Deref(metaPtr).SchemaVersion)
                    \/ x = HeaderEventId /\ Len(Deref(metaPtr).EventId) > 0
                    \/ x = HeaderEventSource /\ ~IsEmpty(Deref(metaPtr).EventSource)
                    \/ x = HeaderEventType /\ ~IsEmpty(Deref(metaPtr).EventType)} |->
             IF h = HeaderSchemaVersion THEN Deref(metaPtr).SchemaVersion
             ELSE IF h = HeaderEventId THEN Deref(metaPtr).EventId
             ELSE IF h = HeaderEventSource THEN Deref(metaPtr).EventSource
             ELSE Deref(metaPtr).EventType]

\* metadataToHeaders: a map from header name to value
metadataToHeaders(metaPtr) ==
    IF metaPtr = NilPtr THEN << >>
    ELSE LET m == Deref(metaPtr)
             present ==
                 {h \in {HeaderSchemaVersion, HeaderEventId, HeaderEventSource,
                         HeaderEventType, HeaderEventTime} :
                    \/ h = HeaderSchemaVersion /\ ~IsEmpty(m.SchemaVersion)
                    \/ h = HeaderEventId /\ Len(m.EventId) > 0
                    \/ h = HeaderEventSource /\ ~IsEmpty(m.EventSource)
                    \/ h = HeaderEventType /\ ~IsEmpty(m.EventType)
                    \/ h = HeaderEventTime /\ m.EventTime > 0}
         IN  [h \in present |->
                 IF h = HeaderSchemaVersion THEN m.SchemaVersion
                 ELSE IF h = HeaderEventId THEN m.EventId
                 ELSE IF h = HeaderEventSource THEN m.EventSource
                 ELSE IF h = HeaderEventType THEN m.EventType
                 ELSE FormatInt(m.EventTime)]

(***************************************************************************)
(* publisher.Publish (publisher.go)                                        *)
(*                                                                         *)
(* The result holds the returned error, the calls made to the transport's  *)
(* Publish (topic and message of each) and the event as the call left it.  *)
(* transportErr is what the transport's Publish returns when called.       *)
(***************************************************************************)
PublishResult(err, calls, eventPtr) ==
    [err |-> err, calls |-> calls, event |-> eventPtr]

\* The message Publish builds from the validated metadata and the envelope
BuildMessage(metaPtr, data) ==
    [Id |-> Deref(metaPtr).EventId, Headers |-> metadataToHeaders(metaPtr),
     Body |-> data, ContentType |-> ContentTypeJson]

\* Publish from the transport call on: pub.inner.Publish and its error
PublishSend(topic, event, message, transportErr) ==
    IF transportErr # NoErr
    THEN PublishResult(Wrap("PublishFailed", transportErr),
                       <<[topic |-> topic, message |-> message]>>, Ptr(event))
    ELSE PublishResult(NoErr, <<[topic |-> topic, message |-> message]>>,
                       Ptr(event))

\* Publish from json.Marshal(event) on; payload is that call's result
PublishEncode(topic, event, payload, transportErr) ==
    IF payload.err # NoErr
    THEN PublishResult(Wrap("PayloadSerializationFailed", payload.err),
                       <<>>, Ptr(event))
    ELSE PublishSend(topic, event,
             BuildMessage(event.Meta,
                 MarshalEnvelope([Metadata |-> event.Meta,
                                  Payload |-> payload.bytes])),
             transportErr)

\* PublishValidated without the check of metadata.Validate()'s error
PublishValidatedAnyway(topic, event, metaErr, transportErr) ==
    PublishEncode(topic, event, MarshalEvent(event), transportErr)

\* Publish after metadata.Validate(): event is the event with the metadata
\* as Validate() left it (normalized in place), metaErr what it returned
PublishValidated(topic, event, metaErr, transportErr) ==
    IF metaErr # NoErr
    THEN PublishResult(Wrap("InvalidMetadata", metaErr), <<>>, Ptr(event))
    ELSE PublishEncode(topic, event, MarshalEvent(event), transportErr)

\* PublishMetadata with Validate() run on a copy of the metadata: the event
\* keeps the metadata it came with
PublishMetadataOnCopy(topic, event, mv, transportErr) ==
    PublishValidated(topic, event, mv.err, transportErr)

\* Publish from metadata.Validate() on; mv is that call's result
PublishMetadata(topic, event, mv, transportErr) ==
    PublishValidated(topic, [event EXCEPT !.Meta = Ptr(mv.meta)], mv.err,
                     transportErr)

\* Publish from the nil check of the event on; topic is the trimmed topic
PublishEvent(topic, eventPtr, now, transportErr) ==
    IF eventPtr = NilPtr
    THEN PublishResult(Err("EmptyEvent"), <<>>, eventPtr)
    ELSE IF EventValidate(Deref(eventPtr)) # NoErr
    THEN PublishResult(Wrap("InvalidEvent", EventValidate(Deref(eventPtr))),
                       <<>>, eventPtr)
    ELSE IF EventMetadata(Deref(eventPtr)) = NilPtr
    THEN PublishResult(Err("MissingMetadata"), <<>>, eventPtr)
    ELSE PublishMetadata(topic, Deref(eventPtr),
             MetaValidate(Deref(EventMetadata(Deref(eventPtr))), now),
             transportErr)

\* The topic check of Publish; trimmed is the topic after strings.TrimSpace
PublishTopic(trimmed, eventPtr, now, transportErr) ==
    IF Len(trimmed) = 0
    THEN PublishResult(Err("EmptyTopic"), <<>>, eventPtr)
    ELSE PublishEvent(trimmed, eventPtr, now, transportErr)

Publish(topic, eventPtr, now, transportErr) ==
    PublishTopic(TrimSpace(topic), eventPtr, now, transportErr)

(***************************************************************************)
(* Factories (EventFactory, factory.go): application functions returning   *)
(* (Event, error).  "fA" and "fB" return a fresh empty instance of event   *)
(* type A and B, "fErr" returns an error, "fPanic" panics.  "fV" and "fM"  *)
(* return an instance of an event type whose Validate(), respectively      *)
(* Metadata(), panics.                                                     *)
(***************************************************************************)
FactoryCall(factory) ==
    IF factory = "fA"
    THEN [event |-> Ptr([Type |-> "A", Meta |-> NilPtr, Data |-> ""]),
          err |-> NoErr, panic |-> FALSE]
    ELSE IF factory = "fB"
    THEN [event |-> Ptr([Type |-> "B", Meta |-> NilPtr, Data |-> ""]),
          err |-> NoErr, panic |-> FALSE]
    ELSE IF factory = "fErr"
    THEN [event |-> NilPtr, err |-> Err("FactoryFailed"), panic |-> FALSE]
    ELSE IF factory = "fV"
    THEN [event |-> Ptr([Type |-> "V", Meta |-> NilPtr, Data |-> ""]),
          err |-> NoErr, panic |-> FALSE]
    ELSE IF factory = "fM"
    THEN [event |-> Ptr([Type |-> "M", Meta |-> NilPtr, Data |-> ""]),
          err |-> NoErr, panic |-> FALSE]
    ELSE [event |-> NilPtr, err |-> NoErr, panic |-> TRUE]

(***************************************************************************)
(* subscriber.decodeEvent                                                  *)
(*                                                                         *)
(* The result holds the returned event and error, whether the call         *)
(* panicked, and the trace of the steps it ran, in order.                  *)
(***************************************************************************)
DecodeSteps ==
    <<"unmarshalEnvelope", "validateMetadata", "lookup", "factory",
      "unmarshalPayload", "validateEvent", "metadata", "match">>

\* The trace of a decode that ran its first n steps
Ran(n) == SubSeq(DecodeSteps, 1, n)

DecodeResult(eventPtr, err, n) ==
    [event |-> eventPtr, err |-> err, panic |-> FALSE, trace |-> Ran(n)]

DecodePanic(n) ==
    [event |-> NilPtr, err |-> NoErr, panic |-> TRUE, trace |-> Ran(n)]

\* MatchMetadata without the comparison of the schema versions
MatchMetadataNoVersion(eventMetadata, metadata) ==
    IF eventMetadata.EventId # metadata.EventId
    THEN Err("EventIdMismatch")
    ELSE IF eventMetadata.EventSource # metadata.EventSource
    THEN Err("EventSourceMismatch")
    ELSE IF eventMetadata.EventType # metadata.EventType
    THEN Err("EventTypeMismatch")
    ELSE NoErr

\* MatchMetadata without the comparison of the event ids
MatchMetadataNoId(eventMetadata, metadata) ==
    IF eventMetadata.SchemaVersion # metadata.SchemaVersion
    THEN Err("SchemaVersionMismatch")
    ELSE IF eventMetadata.EventSource # metadata.EventSource
    THEN Err("EventSourceMismatch")
    ELSE IF eventMetadata.EventType # metadata.EventType
    THEN Err("EventTypeMismatch")
    ELSE NoErr

\* The comparison of the instance's metadata with the envelope's
MatchMetadata(eventMetadata, metadata) ==
    IF eventMetadata.SchemaVersion # metadata.SchemaVersion
    THEN Err("SchemaVersionMismatch")
    ELSE IF eventMetadata.EventId # metadata.EventId
    THEN Err("EventIdMismatch")
    ELSE IF eventMetadata.EventSource # metadata.EventSource
    THEN Err("EventSourceMismatch")
    ELSE IF eventMetadata.EventType # metadata.EventType
    THEN Err("EventTypeMismatch")
    ELSE NoErr

\* decodeEvent after the comparison; matchErr is its result
DecodeMatched(event, matchErr) ==
    IF matchErr # NoErr
    THEN DecodeResult(NilPtr, matchErr, 8)
    ELSE DecodeResult(Ptr(event), NoErr, 8)

\* decodeEvent from event.Validate() on; validErr is that call's result
DecodeChecked(event, validErr, metadata) ==
    IF validErr # NoErr
    THEN DecodeResult(NilPtr, Wrap("InvalidDecodedEvent", validErr), 6)
    ELSE IF EventMetadataPanics(event) THEN DecodePanic(7)
    ELSE IF EventMetadata(event) = NilPtr
    THEN DecodeResult(NilPtr, Err("MissingDecodedMetadata"), 7)
    ELSE DecodeMatched(event,
             MatchMetadata(Deref(EventMetadata(event)), metadata))

\* decodeEvent after json.Unmarshal(envelope.Payload, event)
DecodeFilled(filled, metadata) ==
    IF filled.err # NoErr
    THEN DecodeResult(NilPtr, Wrap("EventDecodeFailed", filled.err), 5)
    ELSE IF EventValidatePanics(filled.event) THEN DecodePanic(6)
    ELSE DecodeChecked(filled.event, EventValidate(filled.event), metadata)

\* decodeEvent after factory(); made is that call's result
DecodeMade(made, metadata, payload) ==
    IF made.panic THEN DecodePanic(4)
    ELSE IF made.err # NoErr
    THEN DecodeResult(NilPtr, Wrap("EventInstantiationFailed", made.err), 4)
    ELSE DecodeFilled(UnmarshalEvent(payload, Deref(made.event)), metadata)

\* decodeEvent after GetEventFactory; got is that call's result
DecodeLookedUp(got, metadata, payload) ==
    IF got.err # NoErr
    THEN DecodeResult(NilPtr, Wrap("GetFactoryFailed", got.err), 3)
    ELSE DecodeMade(FactoryCall(got.factory), metadata, payload)

\* DecodeValidated with the payload check ahead of the metadata's error
DecodeValidatedPayloadFirst(reg, mv, payload) ==
    IF BytesLen0(payload)
    THEN DecodeResult(NilPtr, Err("EmptyEventPayload"), 2)
    ELSE IF mv.err # NoErr
    THEN DecodeResult(NilPtr, Wrap("InvalidMetadata", mv.err), 2)
    ELSE DecodeLookedUp(
             GetEventFactory(reg, mv.meta.SchemaVersion, mv.meta.EventSource,
                             mv.meta.EventType),
             mv.meta, payload)

\* decodeEvent after metadata.Validate(); mv is that call's result, whose
\* meta is the envelope metadata normalized in place
DecodeValidated(reg, mv, payload) ==
    IF mv.err # NoErr
    THEN DecodeResult(NilPtr, Wrap("InvalidMetadata", mv.err), 2)
    ELSE IF BytesLen0(payload)
    THEN DecodeResult(NilPtr, Err("EmptyEventPayload"), 2)
    ELSE DecodeLookedUp(
             GetEventFactory(reg, mv.meta.SchemaVersion, mv.meta.EventSource,
                             mv.meta.EventType),
             mv.meta, payload)

\* decodeEvent after json.Unmarshal(data, &envelope)
DecodeParsed(reg, parsed, now) ==
    IF parsed.err # NoErr
    THEN DecodeResult(NilPtr, Wrap("EnvelopeDecodeFailed", parsed.err), 1)
    ELSE IF parsed.envelope.Metadata = NilPtr
    THEN DecodeResult(NilPtr, Err("MissingMetadata"), 1)
    ELSE DecodeValidated(reg,
             MetaValidate(Deref(parsed.envelope.Metadata), now),
             parsed.envelope.Payload)

decodeEvent(reg, data, now) ==
    IF BytesLen0(data) THEN DecodeResult(NilPtr, Err("EmptyData"), 0)
    ELSE DecodeParsed(reg, UnmarshalEnvelope(data), now)

(***************************************************************************)
(* The delivery callback wrapHandler built by subscriber.Subscribe         *)
(*                                                                         *)
(* handler is what the application handler does when invoked: "ok"         *)
(* (returns nil), "err" (returns an error), "panic", or "errClear" (sets   *)
(* the event's metadata to nil and returns an error, so that               *)
(* event.Metadata().EventId dereferences nil).  The result holds           *)
(* the error returned to the transport, whether a panic left the callback, *)
(* the handler invocations (topic and event of each), whether decodeEvent  *)
(* was called, and decodeEvent's trace.                                    *)
(***************************************************************************)
WrapResult(err, panic, invoked, decodeStarted, trace) ==
    [err |-> err, panic |-> panic, invoked |-> invoked,
     decodeStarted |-> decodeStarted, trace |-> trace]

\* wrapHandler without the deferred recover(): a panic leaves the callback
NoRecover(result) == result

\* A deferred function that recovers only once the handler has been invoked
RecoverHandlerOnly(result) ==
    IF result.panic /\ result.invoked # <<>>
    THEN [result EXCEPT !.err = Err("HandlerPanic"), !.panic = FALSE]
    ELSE result

\* The deferred function of wrapHandler: recover() turns a panic into finalErr
Recover(result) ==
    IF result.panic
    THEN [result EXCEPT !.err = Err("HandlerPanic"), !.panic = FALSE]
    ELSE result

\* The content-type check as an exact comparison with ContentTypeJson
AcceptsExactContentType(contentType) == contentType = ContentTypeJson

\* The content-type check of wrapHandler
AcceptsContentType(contentType) ==
    HasPrefix(ToLower(TrimSpace(contentType)), ContentTypeJson)

\* wrapHandler from the handler call on
WrapInvoke(msgTopic, eventPtr, handler, trace) ==
    IF handler = "panic"
    THEN WrapResult(NoErr, TRUE, <<[topic |-> msgTopic, event |-> eventPtr]>>,
                    TRUE, trace)
    ELSE IF handler = "errClear"
    THEN WrapResult(NoErr, TRUE, <<[topic |-> msgTopic, event |-> eventPtr]>>,
                    TRUE, trace)
    ELSE IF handler = "err"
    THEN WrapResult(Wrap("HandlerFailed", Err("AppError")), FALSE,
                    <<[topic |-> msgTopic, event |-> eventPtr]>>, TRUE, trace)
    ELSE WrapResult(NoErr, FALSE, <<[topic |-> msgTopic, event |-> eventPtr]>>,
                    TRUE, trace)

\* wrapHandler after sub.decodeEvent; dec is that call's result
WrapDecoded(dec, msgTopic, handler) ==
    IF dec.panic THEN WrapResult(NoErr, TRUE, <<>>, TRUE, dec.trace)
    ELSE IF dec.err # NoErr
    THEN WrapResult(dec.err, FALSE, <<>>, TRUE, dec.trace)
    ELSE WrapInvoke(msgTopic, dec.event, handler, dec.trace)

\* wrapHandler from the topic check on
WrapDelivery(reg, delivery, msgTopic, now, handler) ==
    IF Len(msgTopic) = 0
    THEN WrapResult(Err("EmptyTopic"), FALSE, <<>>, FALSE, <<>>)
    ELSE IF BytesLen0(delivery.Message.Body)
    THEN WrapResult(Err("EmptyBody"), FALSE, <<>>, FALSE, <<>>)
    ELSE IF ~AcceptsContentType(delivery.Message.ContentType)
    THEN WrapResult(Err("UnsupportedContentType"), FALSE, <<>>, FALSE, <<>>)
    ELSE WrapDecoded(decodeEvent(reg, delivery.Message.Body, now), msgTopic,
                     handler)

\* The body of wrapHandler, before the deferred function runs
WrapBody(reg, deliveryPtr, now, handler) ==
    IF deliveryPtr = NilPtr
    THEN WrapResult(Err("NilDelivery"), FALSE, <<>>, FALSE, <<>>)
    ELSE WrapDelivery(reg, Deref(deliveryPtr),
                      TrimSpace(Deref(deliveryPtr).Topic), now, handler)

wrapHandler(reg, deliveryPtr, now, handler) ==
    Recover(WrapBody(reg, deliveryPtr, now, handler))

(***************************************************************************)
(* Inputs                                                                  *)
(***************************************************************************)
\* The clock readings time.Now().Unix() may return: NowBase .. NowBase+MaxSkew
NowBase == 1000

MaxSkew == 1

Clock == NowBase .. (NowBase + MaxSkew)

Versions == {<<"v", "1">>, <<" ", "V", "1">>, <<" ">>}

Sources == {<<"s">>, <<>>}

Types == {<<"t">>, <<"T", " ">>, <<"u">>}

Ids == {<<"i">>, <<" ", "i">>, <<"j">>, <<" ">>}

Factories == {"fA", "fB", "fErr"}

EventTimes ==
    {-1, 0, 1} \cup {NowBase + maxFutureSecs + d : d \in -1 .. MaxSkew}

Topics == {<<"o">>, <<" ", "o", " ">>, <<" ">>}

BaseMeta ==
    [SchemaVersion |-> <<"v", "1">>, EventId |-> <<"i">>,
     EventSource |-> <<"s">>, EventType |-> <<"t">>, EventTime |-> NowBase]

\* Metadata values: BaseMeta with one field varied
Metas ==
    {[BaseMeta EXCEPT !.SchemaVersion = x] : x \in Versions}
    \cup {[BaseMeta EXCEPT !.EventId = x] : x \in Ids}
    \cup {[BaseMeta EXCEPT !.EventSource = x] : x \in Sources}
    \cup {[BaseMeta EXCEPT !.EventType = x] : x \in Types}
    \cup {[BaseMeta EXCEPT !.EventTime = x] : x \in EventTimes}

BaseEvent == [Type |-> "A", Meta |-> Ptr(BaseMeta), Data |-> "d"]

\* Events an application passes to Publish
Events ==
    {[BaseEvent EXCEPT !.Meta = Ptr(m)] : m \in Metas}
    \cup {[BaseEvent EXCEPT !.Data = x] : x \in {"invalid", "nan"}}
    \cup {[BaseEvent EXCEPT !.Meta = NilPtr]}

EventPtrs == {Ptr(e) : e \in Events} \cup {NilPtr}

TransportErrs == {NoErr, Err("TransportDown")}

Handlers == {"ok", "err", "panic"}

\* Payload bytes a delivered envelope may carry
Payloads ==
    {MarshalEvent(e).bytes : e \in Events}
    \cup {JsonGarbage, [t |-> "emptyobject"]}

\* Message bodies a transport may deliver: envelopes with the base payload
\* and any metadata, with the base metadata and any payload, and non-envelopes
Bodies ==
    {MarshalEnvelope([Metadata |-> Ptr(m), Payload |-> MarshalEvent(BaseEvent).bytes]) :
        m \in Metas}
    \cup {MarshalEnvelope([Metadata |-> Ptr(BaseMeta), Payload |-> pl]) : pl \in Payloads}
    \cup {MarshalEnvelope([Metadata |-> NilPtr, Payload |-> MarshalEvent(BaseEvent).bytes]),
          JsonGarbage, EmptyBytes}

TextPlain == <<"t", "e", "x", "t", "/", "p", "l", "a", "i", "n">>

ContentTypes ==
    {ContentTypeJson,
     ContentTypeJson \o <<";", " ", "c", "h", "a", "r", "s", "e", "t", "=",
                          "u", "t", "f", "-", "8">>,
     <<" ", "A", "p", "p", "l", "i", "c", "a", "t", "i", "o", "n", "/",
       "J", "S", "O", "N", " ">>,
     TextPlain,
     <<>>}

BaseDelivery ==
    [Topic |-> <<"o">>,
     Message |-> [Id |-> <<"i">>, Headers |-> << >>,
                  Body |-> MarshalEnvelope([Metadata |-> Ptr(BaseMeta),
                                            Payload |-> MarshalEvent(BaseEvent).bytes]),
                  ContentType |-> ContentTypeJson]]

\* Deliveries a transport may hand to the callback: BaseDelivery with the
\* body, the content type or the topic varied, and the nil delivery
Deliveries ==
    {Ptr([BaseDelivery EXCEPT !.Message.Body = b]) : b \in Bodies}
    \cup {Ptr([BaseDelivery EXCEPT !.Message.ContentType = c]) : c \in ContentTypes}
    \cup {Ptr([BaseDelivery EXCEPT !.Topic = t]) : t \in Topics}
    \cup {NilPtr}

(***************************************************************************)
(* State                                                                   *)
(***************************************************************************)
VARIABLES
    registry,   \* eventFactoryRegistry
    op,         \* the call in progress or just returned, with what it did
    wire,       \* the messages the transport accepted from Publish
    hadPanic,   \* an application handler has panicked in an earlier delivery
    crashed,    \* a panic left a delivery callback: the process is gone
    pc,         \* per goroutine: where it is in its registry call
    call,       \* per goroutine: the call's arguments and result
    rwWriter,   \* eventFactoryRegistryLock: the goroutine holding or awaiting
                \* the write lock, 0 if none
    rwReaders,  \* eventFactoryRegistryLock: the goroutines holding a read lock
    done,       \* the goroutines' calls that have returned: how many, and
                \* per key the outcomes of its RegisterEventFactory calls
    first,      \* per key, the factory of its first successful registration
    owner       \* per key, the normalized triple of that registration

svars == <<op, wire, hadPanic, crashed>>

cvars == <<pc, call, rwWriter, rwReaders, done>>

vars ==
    <<registry, op, wire, hadPanic, crashed, pc, call, rwWriter, rwReaders,
      done, first, owner>>

\* Goroutines calling the registry concurrently
NumGoroutines == 2

Procs == 1 .. NumGoroutines

\* Calls the goroutines make in all before the concurrent model stops
MaxCalls == 3

Idle == [kind |-> "idle"]

InitConc ==
    /\ pc = [p \in Procs |-> "idle"]
    /\ call = [p \in Procs |-> Idle]
    /\ rwWriter = 0
    /\ rwReaders = {}
    /\ done = [n |-> 0, reg |-> EmptyRegistry]

InitSeq ==
    /\ op = Idle
    /\ wire = <<>>
    /\ hadPanic = FALSE
    /\ crashed = FALSE

Init ==
    /\ registry = EmptyRegistry
    /\ first = EmptyRegistry
    /\ owner = EmptyRegistry
    /\ InitSeq
    /\ InitConc

(***************************************************************************)
(* The operations, one call at a time: each action is a whole call.  op    *)
(* records the arguments, the registry before the call and the results;    *)
(* Return forgets it before the next call.                                 *)
(***************************************************************************)
CanCall == op.kind = "idle" /\ ~crashed

\* The composite key of a triple
KeyOf(v, s, t) == buildEventFactoryKey(Normalize(v), Normalize(s), Normalize(t))

\* The triple as the registry's calls normalize it
NormTriple(v, s, t) == <<Normalize(v), Normalize(s), Normalize(t)>>

\* The state after RegisterEventFactory(v, s, t, f) returned r
Registered(v, s, t, f, r) ==
    /\ registry' = r.reg
    /\ op' = [kind |-> "Register", version |-> v, source |-> s, type |-> t,
              factory |-> f, before |-> registry, err |-> r.err]
    /\ first' = IF r.err = NoErr /\ KeyOf(v, s, t) \notin DOMAIN first
                THEN first @@ (KeyOf(v, s, t) :> f)
                ELSE first
    /\ owner' = IF r.err = NoErr /\ KeyOf(v, s, t) \notin DOMAIN owner
                THEN owner @@ (KeyOf(v, s, t) :> NormTriple(v, s, t))
                ELSE owner

CallRegister ==
    /\ CanCall
    /\ \E v \in Versions, s \in Sources, t \in Types,
          f \in Factories \cup {NilFactory} :
          Registered(v, s, t, f, RegisterEventFactory(registry, v, s, t, f))
    /\ UNCHANGED <<wire, hadPanic, crashed, cvars>>

\* The state after GetEventFactory(v, s, t) returned r
Got(v, s, t, r) ==
    op' = [kind |-> "Get", version |-> v, source |-> s, type |-> t,
           before |-> registry, factory |-> r.factory, err |-> r.err]

CallGet ==
    /\ CanCall
    /\ \E v \in Versions, s \in Sources, t \in Types :
          Got(v, s, t, GetEventFactory(registry, v, s, t))
    /\ UNCHANGED <<registry, wire, hadPanic, crashed, cvars, first, owner>>

CallExists ==
    /\ CanCall
    /\ \E v \in Versions, s \in Sources, t \in Types :
          op' = [kind |-> "Exists", version |-> v, source |-> s, type |-> t,
                 before |-> registry,
                 exists |-> ExistsEventFactory(registry, v, s, t)]
    /\ UNCHANGED <<registry, wire, hadPanic, crashed, cvars, first, owner>>

CallListKeys ==
    /\ CanCall
    /\ op' = [kind |-> "ListKeys", before |-> registry,
              keys |-> ListEventFactoryKeys(registry)]
    /\ UNCHANGED <<registry, wire, hadPanic, crashed, cvars, first, owner>>

\* The state after Publish(topic, eventPtr) returned r; the transport keeps
\* the message of a call it accepted
Published(topic, eventPtr, now, transportErr, r) ==
    /\ op' = [kind |-> "Publish", topic |-> topic, event |-> eventPtr,
              now |-> now, transportErr |-> transportErr,
              before |-> registry, err |-> r.err, calls |-> r.calls,
              eventAfter |-> r.event]
    /\ wire' = IF r.err = NoErr
               THEN <<[topic |-> r.calls[1].topic,
                       message |-> r.calls[1].message, event |-> r.event]>>
               ELSE wire

\* publisher.Publish
CallPublish ==
    /\ CanCall
    /\ \E topic \in Topics, eventPtr \in EventPtrs, now \in Clock,
          transportErr \in TransportErrs :
          Published(topic, eventPtr, now, transportErr,
                    Publish(topic, eventPtr, now, transportErr))
    /\ UNCHANGED <<registry, hadPanic, crashed, cvars, first, owner>>

\* The state after the delivery callback returned r (or panicked)
Delivered(deliveryPtr, published, now, handler, r) ==
    /\ op' = [kind |-> "Deliver", delivery |-> deliveryPtr,
              published |-> published, now |-> now, handler |-> handler,
              before |-> registry, afterPanic |-> hadPanic,
              err |-> r.err, invoked |-> r.invoked,
              decodeStarted |-> r.decodeStarted, trace |-> r.trace]
    /\ hadPanic' = (hadPanic \/ (r.invoked # <<>> /\ handler = "panic"))
    /\ crashed' = r.panic

\* One run of the delivery callback on deliveryPtr; published is the event
\* whose Publish produced the message, nil for a message of another origin
Deliver(deliveryPtr, published) ==
    \E now \in Clock, handler \in Handlers :
        Delivered(deliveryPtr, published, now, handler,
                  wrapHandler(registry, deliveryPtr, now, handler))

\* The message the transport delivers next: one of its own choosing
\* (published = nil) or the one it accepted from Publish
NextDelivery ==
    {[delivery |-> d, published |-> NilPtr] : d \in Deliveries}
    \cup {[delivery |-> Ptr([Topic |-> wire[i].topic,
                             Message |-> wire[i].message]),
           published |-> wire[i].event] : i \in 1 .. Len(wire)}

CallDeliver ==
    /\ CanCall
    /\ \E d \in NextDelivery : Deliver(d.delivery, d.published)
    /\ UNCHANGED <<registry, wire, cvars, first, owner>>

Return ==
    /\ op.kind # "idle"
    /\ ~crashed
    /\ op' = Idle
    /\ UNCHANGED <<registry, wire, hadPanic, crashed, cvars, first, owner>>

Next ==
    \/ CallRegister
    \/ CallGet
    \/ CallExists
    \/ CallListKeys
    \/ CallPublish
    \/ CallDeliver
    \/ Return

Spec == Init /\ [][Next]_vars

(***************************************************************************)
(* The same operations called from several goroutines.  A call is a        *)
(* sequence of steps: the checks before the lock, the acquisition of       *)
(* eventFactoryRegistryLock, the reads and writes of the map under it, the *)
(* deferred release, the return to the caller.  sync.RWMutex: a writer     *)
(* first takes the writer slot, which stops new readers, then waits for    *)
(* the readers inside to leave; a reader enters when no writer holds or    *)
(* awaits the lock.                                                        *)
(***************************************************************************)
ConcTriples ==
    {<<<<"v", "1">>, <<"s">>, <<"t">>>>,
     <<<<" ", "V", "1">>, <<"s">>, <<"T", " ">>>>,
     <<<<"v", "1">>, <<"s">>, <<"u">>>>,
     <<<<" ">>, <<"s">>, <<"t">>>>}

ConcFactories == {"fA", "fB"}

ConcBodies ==
    {MarshalEnvelope([Metadata |-> Ptr(BaseMeta),
                      Payload |-> MarshalEvent(BaseEvent).bytes]),
     JsonGarbage}

ConcEvents == {Ptr(BaseEvent), NilPtr}

\* Calls begun so far
Started == done.n + Cardinality({p \in Procs : pc[p] # "idle"})

CanBegin(p) == pc[p] = "idle" /\ Started < MaxCalls

\* The factories of the successful registrations of key that have returned
SeenOk(key) ==
    IF key \in DOMAIN done.reg THEN done.reg[key].factories ELSE {}

NewCall(kind, key, triple, factory, data, err) ==
    [kind |-> kind, key |-> key, triple |-> triple, factory |-> factory,
     data |-> data,
     exists |-> FALSE, err |-> err, got |-> NilFactory, keys |-> <<>>,
     event |-> NilPtr, seen |-> SeenOk(key)]

\* Goroutine p has run a call's checks before the lock, with result pre
Began(p, kind, pre, triple, factory, data, next) ==
    /\ pc' = [pc EXCEPT ![p] = IF pre.err = NoErr THEN next ELSE "return"]
    /\ call' = [call EXCEPT ![p] = NewCall(kind, pre.key, triple,
                                             factory, data, pre.err)]
    /\ UNCHANGED <<registry, svars, rwWriter, rwReaders, done, first, owner>>

BeginRegister(p) ==
    /\ CanBegin(p)
    /\ \E tr \in ConcTriples, f \in ConcFactories :
           Began(p, "Register", RegisterPre(tr[1], tr[2], tr[3], f),
                 NormTriple(tr[1], tr[2], tr[3]), f, <<>>, "lock")

BeginGet(p) ==
    /\ CanBegin(p)
    /\ \E tr \in ConcTriples :
           Began(p, "Get", KeyCheck(tr[1], tr[2], tr[3]),
                 NormTriple(tr[1], tr[2], tr[3]), NilFactory, <<>>, "rlock")

BeginExists(p) ==
    /\ CanBegin(p)
    /\ \E tr \in ConcTriples :
           Began(p, "Exists", KeyCheck(tr[1], tr[2], tr[3]),
                 NormTriple(tr[1], tr[2], tr[3]), NilFactory, <<>>, "rlock")

BeginListKeys(p) ==
    /\ CanBegin(p)
    /\ Began(p, "ListKeys", [err |-> NoErr, key |-> <<>>], <<>>, NilFactory, <<>>,
             "rlock")

\* decodeEvent up to its GetEventFactory call: dry is the decode against an
\* empty registry, which stops before the lookup exactly when the real one does
DecodePre(data, dry) ==
    IF Len(dry.trace) < 3
    THEN [err |-> dry.err, key |-> <<>>]
    ELSE KeyCheck(Deref(UnmarshalEnvelope(data).envelope.Metadata).SchemaVersion,
                  Deref(UnmarshalEnvelope(data).envelope.Metadata).EventSource,
                  Deref(UnmarshalEnvelope(data).envelope.Metadata).EventType)

BeginDecode(p) ==
    /\ CanBegin(p)
    /\ \E data \in ConcBodies :
           Began(p, "Decode",
                 DecodePre(data, decodeEvent(EmptyRegistry, data, NowBase)),
                 <<>>, NilFactory, data, "rlock")

\* Publish takes no lock and reads no registry
BeginPublish(p) ==
    /\ CanBegin(p)
    /\ \E ev \in ConcEvents :
           Began(p, "Publish",
                 [err |-> Publish(<<"o">>, ev, NowBase, NoErr).err, key |-> <<>>],
                 <<>>, NilFactory, <<>>, "return")

\* Lock(), first half: the writer slot is free
WriterFreeAlways(w) == TRUE

WriterFree(w) == w = 0

Lock(p) ==
    /\ pc[p] = "lock"
    /\ WriterFree(rwWriter)
    /\ rwWriter' = p
    /\ pc' = [pc EXCEPT ![p] = "drain"]
    /\ UNCHANGED <<registry, svars, call, rwReaders, done, first, owner>>

\* Lock(), second half: the readers inside have left
LockDrained(p) ==
    /\ pc[p] = "drain"
    /\ rwReaders = {}
    /\ pc' = [pc EXCEPT ![p] = "check"]
    /\ UNCHANGED <<registry, svars, call, rwWriter, rwReaders, done, first, owner>>

RegisterRead(p) ==
    /\ pc[p] = "check"
    /\ call' = [call EXCEPT ![p].exists = RegistryHas(registry, call[p].key)]
    /\ pc' = [pc EXCEPT ![p] = "store"]
    /\ UNCHANGED <<registry, svars, rwWriter, rwReaders, done, first, owner>>

\* Goroutine p has run the branch on its read, with result r
Stored(p, r) ==
    /\ registry' = r.reg
    /\ call' = [call EXCEPT ![p].err = r.err]
    /\ first' = IF r.err = NoErr /\ call[p].key \notin DOMAIN first
                THEN first @@ (call[p].key :> call[p].factory)
                ELSE first
    /\ owner' = IF r.err = NoErr /\ call[p].key \notin DOMAIN owner
                THEN owner @@ (call[p].key :> call[p].triple)
                ELSE owner
    /\ pc' = [pc EXCEPT ![p] = "unlock"]
    /\ UNCHANGED <<svars, rwWriter, rwReaders, done>>

RegisterWrite(p) ==
    /\ pc[p] = "store"
    /\ Stored(p, RegisterStore(registry, call[p].key, call[p].factory,
                               call[p].exists))

\* The deferred Unlock() that runs on the success path only
UnlockedOnSuccess(p, err) == IF err = NoErr THEN 0 ELSE p

\* The writer slot after goroutine p's deferred Unlock()
Unlocked(p, err) == 0

Unlock(p) ==
    /\ pc[p] = "unlock"
    /\ rwWriter' = Unlocked(p, call[p].err)
    /\ pc' = [pc EXCEPT ![p] = "return"]
    /\ UNCHANGED <<registry, svars, call, rwReaders, done, first, owner>>

RLock(p) ==
    /\ pc[p] = "rlock"
    /\ rwWriter = 0
    /\ rwReaders' = rwReaders \cup {p}
    /\ pc' = [pc EXCEPT ![p] = "read"]
    /\ UNCHANGED <<registry, svars, call, rwWriter, done, first, owner>>

\* Goroutine p has read the registry under the read lock
HasRead(p, c) ==
    /\ call' = [call EXCEPT ![p] = c]
    /\ pc' = [pc EXCEPT ![p] = "runlock"]
    /\ UNCHANGED <<registry, svars, rwWriter, rwReaders, done, first, owner>>

GetRead(p) ==
    /\ pc[p] = "read"
    /\ call[p].kind = "Get"
    /\ HasRead(p, [call[p] EXCEPT !.err = GetLocked(registry, call[p].key).err,
                                 !.got = GetLocked(registry, call[p].key).factory])

ExistsRead(p) ==
    /\ pc[p] = "read"
    /\ call[p].kind = "Exists"
    /\ HasRead(p, [call[p] EXCEPT !.exists = ExistsLocked(registry, call[p].key)])

ListKeysRead(p) ==
    /\ pc[p] = "read"
    /\ call[p].kind = "ListKeys"
    /\ HasRead(p, [call[p] EXCEPT !.keys = ListLocked(registry)])

\* decodeEvent's GetEventFactory call, whose error it wraps; got is the
\* result of the read
DecodeLookup(got) ==
    [factory |-> got.factory,
     err |-> IF got.err # NoErr THEN Wrap("GetFactoryFailed", got.err) ELSE NoErr]

\* decodeEvent reads the registry in GetEventFactory; what follows touches
\* only the goroutine's own values
DecodeRead(p) ==
    /\ pc[p] = "read"
    /\ call[p].kind = "Decode"
    /\ HasRead(p, [call[p] EXCEPT
                      !.err = DecodeLookup(GetLocked(registry, call[p].key)).err,
                      !.got = DecodeLookup(GetLocked(registry, call[p].key)).factory])

RUnlock(p) ==
    /\ pc[p] = "runlock"
    /\ rwReaders' = rwReaders \ {p}
    /\ pc' = [pc EXCEPT ![p] = "return"]
    /\ UNCHANGED <<registry, svars, call, rwWriter, done, first, owner>>

NoOutcomes == [ok |-> 0, exists |-> 0, other |-> 0, factories |-> {}]

\* The outcomes old of a key's registrations, with call c's added
Outcome(old, c) ==
    [ok |-> old.ok + (IF c.err = NoErr THEN 1 ELSE 0),
     exists |-> old.exists + (IF c.err = Err(ErrEventFactoryExists) THEN 1 ELSE 0),
     other |-> old.other
               + (IF c.err \notin {NoErr, Err(ErrEventFactoryExists)} THEN 1 ELSE 0),
     factories |-> IF c.err = NoErr THEN old.factories \cup {c.factory}
                   ELSE old.factories]

Returned(d, c) ==
    [n |-> d.n + 1,
     reg |-> IF c.kind = "Register" /\ c.key # <<>>
             THEN (c.key :> Outcome(IF c.key \in DOMAIN d.reg THEN d.reg[c.key]
                                    ELSE NoOutcomes, c)) @@ d.reg
             ELSE d.reg]

ReturnCall(p) ==
    /\ pc[p] = "return"
    /\ done' = Returned(done, call[p])
    /\ pc' = [pc EXCEPT ![p] = "idle"]
    /\ call' = [call EXCEPT ![p] = Idle]
    /\ UNCHANGED <<registry, svars, rwWriter, rwReaders, first, owner>>

\* The steps of a call in progress
Step(p) ==
    \/ Lock(p)
    \/ LockDrained(p)
    \/ RegisterRead(p)
    \/ RegisterWrite(p)
    \/ Unlock(p)
    \/ RLock(p)
    \/ GetRead(p)
    \/ ExistsRead(p)
    \/ ListKeysRead(p)
    \/ DecodeRead(p)
    \/ RUnlock(p)
    \/ ReturnCall(p)

Begin(p) ==
    \/ BeginRegister(p)
    \/ BeginGet(p)
    \/ BeginExists(p)
    \/ BeginListKeys(p)
    \/ BeginDecode(p)
    \/ BeginPublish(p)

NextConc == \E p \in Procs : Begin(p) \/ Step(p)

ConcSpec == Init /\ [][NextConc]_vars

\* The Go scheduler runs every runnable goroutine; a goroutine blocked in
\* Lock() or RLock() is not overtaken for ever: the mutex hands over to a
\* starving waiter, and Unlock() admits the readers that were waiting.
FairConcSpec ==
    /\ ConcSpec
    /\ \A p \in Procs :
           WF_vars(Step(p)) /\ SF_vars(Lock(p)) /\ SF_vars(RLock(p))

(***************************************************************************)
(* Properties of the operations, checked under Spec                        *)
(***************************************************************************)
\* The key of the triple of the Register, Get or Exists call in op
OpKey == KeyOf(op.version, op.source, op.type)

\* The Get part of C2: once a key has been registered, Get returns the
\* factory of its first successful registration
GetReturnsFirst ==
    (op.kind = "Get" /\ OpKey \in DOMAIN first)
        => (op.err = NoErr /\ op.factory = first[OpKey])

\* C2 as stated: every RegisterEventFactory call for a triple that already
\* has a registered factory fails with ErrEventFactoryExists and leaves the
\* registry as it was, and GetEventFactory for a registered triple returns
\* the factory of the first successful registration.
C2_AsStated ==
    /\ (op.kind = "Register" /\ OpKey \in DOMAIN op.before)
           => (Is(op.err, ErrEventFactoryExists) /\ registry = op.before)
    /\ GetReturnsFirst

\* C2 (amended): a RegisterEventFactory call for a triple that already has a
\* registered factory fails and leaves the registry as it was; the error is
\* ErrEventFactoryExists when the factory passed is non-nil, and the
\* nil-factory error (not ErrEventFactoryExists) when it is nil.
\* GetEventFactory for a registered triple returns the factory of the first
\* successful registration.
C2_RegistryExclusive ==
    /\ (op.kind = "Register" /\ OpKey \in DOMAIN op.before)
           => /\ op.err # NoErr
              /\ registry = op.before
              /\ (op.factory # NilFactory => Is(op.err, ErrEventFactoryExists))
              /\ (op.factory = NilFactory => op.err = Err("NilFactory"))
    /\ GetReturnsFirst

\* A second registration of a registered triple with another factory
C2_Witness ==
    /\ op.kind = "Register"
    /\ OpKey \in DOMAIN op.before
    /\ op.factory \notin {NilFactory, op.before[OpKey]}

\* The event Publish was called with, as Publish left it, when op is the
\* delivery of a message the transport accepted from Publish
PublishedEvent == Deref(op.published)

\* The registry key of the identity triple of the published event
PublishedKey ==
    KeyOf(Deref(PublishedEvent.Meta).SchemaVersion,
          Deref(PublishedEvent.Meta).EventSource,
          Deref(PublishedEvent.Meta).EventType)

\* op delivers a published message whose triple has a registered factory
\* that returns fresh instances
DeliversRegistered ==
    /\ op.kind = "Deliver"
    /\ op.published # NilPtr
    /\ PublishedKey \in DOMAIN op.before
    /\ op.before[PublishedKey] \in {"fA", "fB"}

\* Decode succeeded (the handler was invoked) with an event equal to the
\* published one in every serialized field
DecodedEqualsPublished ==
    /\ Len(op.invoked) = 1
    /\ op.invoked[1].event # NilPtr
    /\ Deref(op.invoked[1].event).Meta = PublishedEvent.Meta
    /\ Deref(op.invoked[1].event).Data = PublishedEvent.Data

\* C1 as stated: the body Publish hands to the transport for a valid event
\* whose triple has a registered factory always decodes, to an event equal
\* to the published one field for field (eventTime included).
C1_AsStated == DeliversRegistered => DecodedEqualsPublished

\* C1 (amended): the same, provided the event's eventTime is at most 300
\* seconds ahead of the clock the decoding side reads; decode validates the
\* envelope metadata again, against its own clock.
C1_RoundTrip ==
    (/\ DeliversRegistered
     /\ Deref(PublishedEvent.Meta).EventTime <= op.now + maxFutureSecs)
        => DecodedEqualsPublished

\* A round trip of an event published with metadata that was not in
\* normalized form
C1_Witness ==
    /\ DeliversRegistered
    /\ DecodedEqualsPublished
    /\ \E t \in Topics, e \in Events, now \in Clock :
          /\ e.Meta # PublishedEvent.Meta
          /\ Publish(t, Ptr(e), now, NoErr).event = op.published

(***************************************************************************)
(* What a delivery in op carries, read off the delivery itself             *)
(***************************************************************************)
OpDelivery == Deref(op.delivery)

OpBody == OpDelivery.Message.Body

\* The delivery passes the checks of the callback that precede decode
GatesPass ==
    /\ op.delivery # NilPtr
    /\ Len(TrimSpace(OpDelivery.Topic)) > 0
    /\ OpBody.t # "empty"
    /\ HasPrefix(ToLower(TrimSpace(OpDelivery.Message.ContentType)),
                 ContentTypeJson)

\* The envelope metadata as delivered, and normalized
EnvMeta == Deref(UnmarshalMetadata(OpBody.metadata))

EnvMetaN == MetaNormalize(EnvMeta)

\* The body is a well-formed envelope: it parses, its metadata is present
\* and valid at the clock value the callback reads, its payload is not empty
EnvelopeOk ==
    /\ GatesPass
    /\ OpBody.t = "envelope"
    /\ OpBody.metadata.t = "object"
    /\ MetaCheck(EnvMetaN, op.now) = NoErr
    /\ OpBody.payload.t = "base64"
    /\ OpBody.payload.of.t # "empty"

EnvKey ==
    buildEventFactoryKey(EnvMetaN.SchemaVersion, EnvMetaN.EventSource,
                         EnvMetaN.EventType)

OpPayload == OpBody.payload.of

\* The metadata the populated instance reports: the one in the payload
InstanceMeta == Deref(UnmarshalMetadata(OpPayload.meta))

\* Decode gets as far as comparing the instance's metadata with the
\* envelope's: a factory returning instances is registered, the payload
\* deserializes, the instance is valid and has metadata
ReachesMatch ==
    /\ EnvelopeOk
    /\ EnvKey \in DOMAIN op.before
    /\ op.before[EnvKey] \in {"fA", "fB"}
    /\ OpPayload.t = "event"
    /\ OpPayload.data # "invalid"
    /\ OpPayload.meta.t = "object"

IdentityFields == {"SchemaVersion", "EventId", "EventSource", "EventType"}

MismatchError(f) ==
    IF f = "SchemaVersion" THEN Err("SchemaVersionMismatch")
    ELSE IF f = "EventId" THEN Err("EventIdMismatch")
    ELSE IF f = "EventSource" THEN Err("EventSourceMismatch")
    ELSE Err("EventTypeMismatch")

\* The identity fields in which the instance differs from the envelope
Differing == {f \in IdentityFields : InstanceMeta[f] # EnvMetaN[f]}

\* C6: when the application handler panics on a decoded event the callback
\* returns a non-nil error and no panic leaves it (the process goes on); a
\* delivery after a handler panic is processed as any other: a decodable
\* message reaches the handler once and the callback returns nil exactly
\* when the handler does.
C6_FaultContained ==
    /\ ~crashed
    /\ (op.kind = "Deliver" /\ op.handler = "panic" /\ Len(op.invoked) = 1)
           => op.err # NoErr
    /\ (op.kind = "Deliver" /\ op.afterPanic /\ ReachesMatch /\ Differing = {})
           => /\ Len(op.invoked) = 1
              /\ (op.err = NoErr) <=> (op.handler = "ok")

\* A delivery processed normally after an earlier handler panic
C6_Witness ==
    /\ op.kind = "Deliver"
    /\ op.afterPanic
    /\ Len(op.invoked) = 1
    /\ op.handler = "ok"
    /\ op.err = NoErr

\* C7: decoding a well-formed envelope whose normalized triple has no
\* registered factory fails with an error wrapping ErrEventFactoryNotFound
\* and the handler is not invoked; no delivery and no Publish changes the
\* registry.
C7_UnknownTypeRejected ==
    /\ (op.kind = "Deliver" /\ EnvelopeOk /\ EnvKey \notin DOMAIN op.before)
           => /\ Is(op.err, ErrEventFactoryNotFound)
              /\ op.invoked = <<>>
    /\ (op.kind \in {"Deliver", "Publish"}) => registry = op.before

\* An unknown type is delivered while another type is registered
C7_Witness ==
    /\ op.kind = "Deliver"
    /\ EnvelopeOk
    /\ EnvKey \notin DOMAIN op.before
    /\ op.before # EmptyRegistry
    /\ Is(op.err, ErrEventFactoryNotFound)

\* C8: when the populated instance reports a schemaVersion, eventId,
\* eventSource or eventType that differs from the normalized envelope
\* metadata's, decode fails with the mismatch error of a differing field and
\* the handler is not invoked; an eventId difference alone gives the
\* eventId-mismatch error; with the four fields equal decode succeeds,
\* whatever the two eventTime values are.
C8_MismatchDetected ==
    (op.kind = "Deliver" /\ ReachesMatch)
        => /\ Differing # {}
                => /\ op.invoked = <<>>
                   /\ \E f \in Differing : op.err = MismatchError(f)
           /\ Differing = {"EventId"} => op.err = Err("EventIdMismatch")
           /\ Differing = {} => Len(op.invoked) = 1

\* An eventId difference alone
C8_Witness ==
    /\ op.kind = "Deliver"
    /\ ReachesMatch
    /\ Differing = {"EventId"}
    /\ op.err = Err("EventIdMismatch")

\* An eventTime difference alone: decode succeeds
C8_TimeWitness ==
    /\ op.kind = "Deliver"
    /\ ReachesMatch
    /\ Differing = {}
    /\ InstanceMeta.EventTime # EnvMetaN.EventTime
    /\ Len(op.invoked) = 1

\* C9: a delivery whose content type, trimmed and lowercased, does not start
\* with "application/json" is rejected with an error before decode starts
\* (no registry lookup, no factory call, no handler call); a delivery that
\* has that prefix, a non-empty topic and a non-empty body proceeds to decode.
C9_ContentTypeGate ==
    /\ (/\ op.kind = "Deliver"
        /\ op.delivery # NilPtr
        /\ ~HasPrefix(ToLower(TrimSpace(OpDelivery.Message.ContentType)),
                      ContentTypeJson))
           => /\ op.err # NoErr
              /\ ~op.decodeStarted
              /\ op.trace = <<>>
              /\ op.invoked = <<>>
    /\ (op.kind = "Deliver" /\ GatesPass) => op.decodeStarted

\* A text/plain delivery is rejected
C9_Witness ==
    /\ op.kind = "Deliver"
    /\ op.delivery # NilPtr
    /\ OpDelivery.Message.ContentType = TextPlain
    /\ op.err = Err("UnsupportedContentType")

\* A delivery with a charset parameter is decoded and handled
C9_CharsetWitness ==
    /\ op.kind = "Deliver"
    /\ op.delivery # NilPtr
    /\ Len(OpDelivery.Message.ContentType) > Len(ContentTypeJson)
    /\ Len(op.invoked) = 1

\* Publish's input in op fails one of the checks that precede the transport
PublishInputBad ==
    \/ Len(TrimSpace(op.topic)) = 0
    \/ op.event = NilPtr
    \/ EventValidate(Deref(op.event)) # NoErr
    \/ Deref(op.event).Meta = NilPtr
    \/ MetaCheck(MetaNormalize(Deref(Deref(op.event).Meta)), op.now) # NoErr
    \/ MarshalEvent(Deref(op.event)).err # NoErr

\* C10: when the topic is empty after trimming, the event is nil,
\* event.Validate() fails, Metadata() is nil, Metadata.Validate() fails or
\* serialization fails, Publish returns an error and never calls the
\* transport; otherwise it calls the transport exactly once, with the
\* trimmed topic, and returns an error wrapping the transport's error when
\* there is one and nil when there is none.
C10_PublishChecked ==
    op.kind = "Publish"
        => /\ PublishInputBad => (op.err # NoErr /\ op.calls = <<>>)
           /\ ~PublishInputBad
                => /\ Len(op.calls) = 1
                   /\ op.calls[1].topic = TrimSpace(op.topic)
                   /\ op.transportErr = NoErr => op.err = NoErr
                   /\ op.transportErr # NoErr
                        => /\ op.err # NoErr
                           /\ \A k \in Range(op.transportErr) : Is(op.err, k)

\* A valid event published on an untrimmed topic with the transport failing
C10_Witness ==
    /\ op.kind = "Publish"
    /\ ~PublishInputBad
    /\ op.topic # TrimSpace(op.topic)
    /\ op.transportErr # NoErr
    /\ Len(op.calls) = 1

(***************************************************************************)
(* The registry under concurrent callers.                                  *)
(***************************************************************************)
AllIdle == \A p \in Procs : pc[p] = "idle"

\* Two goroutines are in RegisterEventFactory for the same key at once
Racing(p, q) ==
    /\ p # q
    /\ call[p].kind = "Register" /\ call[q].kind = "Register"
    /\ call[p].key # <<>>
    /\ call[p].key = call[q].key

\* C3: of the RegisterEventFactory calls for one normalized triple, made
\* with valid non-nil factories from any number of goroutines, exactly one
\* returns success and every other one returns ErrEventFactoryExists, and
\* the factory stored afterwards is the one the successful call passed.
C3_OneWinner ==
    \A key \in DOMAIN done.reg :
        /\ done.reg[key].ok <= 1
        /\ done.reg[key].other = 0
        /\ done.reg[key].exists > 0 => key \in DOMAIN registry
        /\ done.reg[key].ok = 1 =>
               /\ key \in DOMAIN registry
               /\ done.reg[key].factories = {registry[key]}
        /\ AllIdle => done.reg[key].ok = 1

\* Two overlapping registrations of one key are about to return, one with
\* success and one with ErrEventFactoryExists
C3_Witness ==
    \E p, q \in Procs :
        /\ Racing(p, q)
        /\ call[p].factory # call[q].factory
        /\ pc[p] = "return" /\ pc[q] = "return"
        /\ call[p].err = NoErr
        /\ call[q].err = Err(ErrEventFactoryExists)
        /\ registry[call[p].key] = call[p].factory

\* No step removes a key of the registry or changes the factory it maps to
RegistryGrows ==
    \A key \in DOMAIN registry :
        key \in DOMAIN registry' /\ registry'[key] = registry[key]

\* A GetEventFactory call that began after a successful registration of its
\* key had returned
GetAfterRegister(p) ==
    /\ call[p].kind = "Get"
    /\ call[p].seen # {}
    /\ pc[p] \in {"runlock", "return"}

\* C4: the registry is add-only, no step of any operation removes a key or
\* changes the factory a key maps to, so a GetEventFactory call that starts
\* after a RegisterEventFactory call for its key has returned success
\* returns the factory that registration stored.
C4_AddOnly ==
    /\ [][RegistryGrows]_vars
    /\ [](\A p \in Procs :
              GetAfterRegister(p) =>
                  call[p].err = NoErr /\ {call[p].got} = call[p].seen)

\* Such a GetEventFactory call returns, after a later registration of the
\* same key by another factory has been refused
C4_Witness ==
    \E p \in Procs :
        /\ GetAfterRegister(p)
        /\ pc[p] = "return"
        /\ done.reg[call[p].key].exists > 0
        /\ {call[p].got} = call[p].seen

\* The goroutines inside the lock
Writing == {p \in Procs : pc[p] \in {"check", "store", "unlock"}}

Reading == {p \in Procs : pc[p] \in {"read", "runlock"}}

\* A writer is inside alone; readers are inside together
LockExclusive ==
    /\ Cardinality(Writing) <= 1
    /\ Writing # {} => Reading = {}
    /\ Writing \subseteq {rwWriter}
    /\ Reading = rwReaders

\* A goroutine that has returned, or is about to, holds no lock
LockReleased ==
    \A p \in Procs :
        pc[p] \in {"idle", "return"} => p \notin rwReaders /\ rwWriter # p

\* C5: under a fair scheduler every call of RegisterEventFactory,
\* GetEventFactory, ExistsEventFactory and ListEventFactoryKeys returns, on
\* success and on every error path, with the registry lock released; no
\* goroutine blocks for ever on the lock; a writer holds it alone while
\* readers hold it together.
C5_LockLiveness ==
    /\ [](LockExclusive /\ LockReleased)
    /\ \A p \in Procs : pc[p] # "idle" ~> pc[p] = "idle"

\* Two readers are inside the lock together while nobody writes, after a
\* registration has held it and returned
C5_Witness ==
    /\ Cardinality(rwReaders) >= 2
    /\ rwWriter = 0
    /\ \E key \in DOMAIN done.reg : done.reg[key].ok > 0

\* A writer waits for a reader inside to leave
C5_WriterWaits ==
    \E p, q \in Procs : pc[p] = "drain" /\ pc[q] \in {"read", "runlock"}

(***************************************************************************)
(* The headers of a published message.  metadataToHeaders is also called   *)
(* on its own, with any metadata.                                          *)
(***************************************************************************)
\* Metadata with every field the zero value, and with blank strings
ZeroMeta ==
    [SchemaVersion |-> <<>>, EventId |-> <<>>, EventSource |-> <<>>,
     EventType |-> <<>>, EventTime |-> 0]

BlankMeta ==
    [SchemaVersion |-> <<" ">>, EventId |-> <<" ">>, EventSource |-> <<" ">>,
     EventType |-> <<" ">>, EventTime |-> -1]

HeaderMetas == {Ptr(m) : m \in Metas \cup {ZeroMeta, BlankMeta}} \cup {NilPtr}

CallHeaders ==
    /\ CanCall
    /\ \E metaPtr \in HeaderMetas :
          op' = [kind |-> "Headers", meta |-> metaPtr,
                 headers |-> metadataToHeaders(metaPtr)]
    /\ UNCHANGED <<registry, wire, hadPanic, crashed, cvars, first, owner>>

NextHeaders == CallPublish \/ CallHeaders \/ Return

HeaderSpec == Init /\ [][NextHeaders]_vars

AllHeaders ==
    {HeaderSchemaVersion, HeaderEventId, HeaderEventSource, HeaderEventType,
     HeaderEventTime}

\* The number a string of decimal digits writes, -1 if it is not one
RECURSIVE ParseDecimal(_)
ParseDecimal(s) ==
    IF Len(s) = 0 \/ s[Len(s)] \notin Range(Digits) THEN -1
    ELSE IF Len(s) = 1 THEN CharCode(s[1]) - CharCode("0")
    ELSE IF s[1] = "0" \/ ParseDecimal(SubSeq(s, 1, Len(s) - 1)) < 0 THEN -1
    ELSE ParseDecimal(SubSeq(s, 1, Len(s) - 1)) * 10
             + CharCode(s[Len(s)]) - CharCode("0")

\* The message Publish handed to the transport and the metadata in its body
SentMessage == op.calls[1].message

SentMeta == Deref(UnmarshalEnvelope(SentMessage.Body).envelope.Metadata)

GivenMeta == Deref(Deref(op.event).Meta)

\* headers holds exactly the header name for a present field, with value
HeaderIs(headers, name, present, value) ==
    IF present THEN name \in DOMAIN headers /\ headers[name] = value
    ELSE name \notin DOMAIN headers

\* C11: every message Publish hands to the transport has the event's trimmed
\* eventId as id, content type application/json and all five x-event-
\* headers, with the values of the normalized metadata in the envelope body
\* (x-event-time in decimal); metadataToHeaders in general emits a header
\* exactly when its field is not empty (as IsEmpty() has it for the version,
\* source and type, by length for the id, > 0 for the time) and nothing for
\* nil metadata.
C11_Headers ==
    /\ (op.kind = "Publish" /\ op.calls # <<>>) =>
           /\ SentMessage.Id = TrimSpace(GivenMeta.EventId)
           /\ SentMessage.ContentType = <<"a", "p", "p", "l", "i", "c", "a", "t",
                                          "i", "o", "n", "/", "j", "s", "o", "n">>
           /\ DOMAIN SentMessage.Headers = AllHeaders
           /\ SentMeta = MetaNormalize(GivenMeta)
           /\ SentMessage.Headers[HeaderSchemaVersion] = SentMeta.SchemaVersion
           /\ SentMessage.Headers[HeaderEventId] = SentMeta.EventId
           /\ SentMessage.Headers[HeaderEventSource] = SentMeta.EventSource
           /\ SentMessage.Headers[HeaderEventType] = SentMeta.EventType
           /\ ParseDecimal(SentMessage.Headers[HeaderEventTime]) = SentMeta.EventTime
    /\ (op.kind = "Headers" /\ op.meta = NilPtr) => DOMAIN op.headers = {}
    /\ (op.kind = "Headers" /\ op.meta # NilPtr) =>
           /\ DOMAIN op.headers \subseteq AllHeaders
           /\ HeaderIs(op.headers, HeaderSchemaVersion,
                       Len(TrimSpace(Deref(op.meta).SchemaVersion)) > 0,
                       Deref(op.meta).SchemaVersion)
           /\ HeaderIs(op.headers, HeaderEventId,
                       Len(Deref(op.meta).EventId) > 0, Deref(op.meta).EventId)
           /\ HeaderIs(op.headers, HeaderEventSource,
                       Len(TrimSpace(Deref(op.meta).EventSource)) > 0,
                       Deref(op.meta).EventSource)
           /\ HeaderIs(op.headers, HeaderEventType,
                       Len(TrimSpace(Deref(op.meta).EventType)) > 0,
                       Deref(op.meta).EventType)
           /\ (HeaderEventTime \in DOMAIN op.headers) = (Deref(op.meta).EventTime > 0)
           /\ Deref(op.meta).EventTime > 0 =>
                  ParseDecimal(op.headers[HeaderEventTime]) = Deref(op.meta).EventTime

\* Publish sent a message for an event whose id and type came untrimmed
C11_Witness ==
    /\ op.kind = "Publish"
    /\ op.calls # <<>>
    /\ GivenMeta.EventId # TrimSpace(GivenMeta.EventId)
    /\ DOMAIN SentMessage.Headers = AllHeaders
    /\ ParseDecimal(SentMessage.Headers[HeaderEventTime]) = NowBase

\* metadataToHeaders of blank metadata emits the id header alone
C11_BlankWitness ==
    /\ op.kind = "Headers"
    /\ op.meta = Ptr(BlankMeta)
    /\ DOMAIN op.headers = {HeaderEventId}

(***************************************************************************)
(* Metadata.Validate and the Normalize methods called on their own.  A     *)
(* Metadata value lives in op: Validate works on it in place, and may be   *)
(* called on it again.                                                     *)
(***************************************************************************)
\* Longest identity value normalized on its own
MaxLen == 3

NormChars == {" ", "\t", "A", "a", "1"}

\* The strings over NormChars of length at most n
RECURSIVE StringsUpTo(_)
StringsUpTo(n) ==
    IF n = 0 THEN {<<>>}
    ELSE StringsUpTo(n - 1)
         \cup {Append(s, c) : s \in StringsUpTo(n - 1), c \in NormChars}

IdentityValues == StringsUpTo(MaxLen)

\* Metadata values with every field varied
ValidateMetas ==
    {[SchemaVersion |-> v, EventId |-> i, EventSource |-> s, EventType |-> t,
      EventTime |-> e] :
        v \in Versions, i \in Ids, s \in Sources, t \in Types, e \in EventTimes}

\* meta.Validate() on a metadata value, at clock value now
CallValidate ==
    /\ CanCall
    /\ \E meta \in ValidateMetas, now \in Clock :
          op' = [kind |-> "Validate", given |-> meta, now |-> now,
                 meta |-> MetaValidate(meta, now).meta,
                 err |-> MetaValidate(meta, now).err,
                 calls |-> 1, changed |-> FALSE, errBefore |-> NoErr]
    /\ UNCHANGED <<registry, wire, hadPanic, crashed, cvars, first, owner>>

\* meta.Validate() once more on the same value, at the same clock value
CallValidateAgain ==
    /\ op.kind = "Validate"
    /\ op.calls = 1
    /\ op' = [op EXCEPT !.meta = MetaValidate(op.meta, op.now).meta,
                        !.err = MetaValidate(op.meta, op.now).err,
                        !.calls = 2,
                        !.changed = (MetaValidate(op.meta, op.now).meta # op.meta),
                        !.errBefore = op.err]
    /\ UNCHANGED <<registry, wire, hadPanic, crashed, cvars, first, owner>>

\* v.Normalize(), and Normalize() of its result
CallNormalize ==
    /\ CanCall
    /\ \E v \in IdentityValues :
          op' = [kind |-> "Normalize", value |-> v, once |-> Normalize(v),
                 twice |-> Normalize(Normalize(v))]
    /\ UNCHANGED <<registry, wire, hadPanic, crashed, cvars, first, owner>>

NextValidate == CallValidate \/ CallValidateAgain \/ CallNormalize \/ Return

ValidateSpec == Init /\ [][NextValidate]_vars

\* The metadata op validated had every field but the time valid
OtherFieldsValid ==
    /\ Len(TrimSpace(op.given.SchemaVersion)) > 0
    /\ Len(TrimSpace(op.given.EventId)) > 0
    /\ Len(TrimSpace(op.given.EventSource)) > 0
    /\ Len(TrimSpace(op.given.EventType)) > 0

\* C12: with the other fields valid, Metadata.Validate at clock value now
\* fails when eventTime <= 0, succeeds when 0 < eventTime <= now + 300
\* (now + 300 itself included) and fails when eventTime > now + 300; there
\* is no bound on how old the event may be.
C12_ClockSkew ==
    (op.kind = "Validate" /\ op.calls = 1 /\ OtherFieldsValid) =>
        /\ op.given.EventTime <= 0 => op.err # NoErr
        /\ (0 < op.given.EventTime /\ op.given.EventTime <= op.now + 300)
               => op.err = NoErr
        /\ op.given.EventTime > op.now + 300 => op.err # NoErr

\* Validate accepted an eventTime exactly 300 seconds ahead of the clock
C12_Witness ==
    /\ op.kind = "Validate"
    /\ op.calls = 1
    /\ OtherFieldsValid
    /\ op.given.EventTime = op.now + 300
    /\ op.err = NoErr

\* Validate refused 301 seconds ahead, and accepted the oldest time there is
C12_AheadWitness ==
    /\ op.kind = "Validate"
    /\ OtherFieldsValid
    /\ op.given.EventTime = op.now + 301
    /\ op.err # NoErr

C12_OldWitness ==
    /\ op.kind = "Validate"
    /\ OtherFieldsValid
    /\ op.given.EventTime = 1
    /\ op.err = NoErr

\* s has no white space at either end
IsTrimmed(s) ==
    Len(s) > 0 => (s[1] \notin SpaceChars /\ s[Len(s)] \notin SpaceChars)

\* s is trimmed and has no upper-case letter
IsNormalized(s) ==
    IsTrimmed(s) /\ \A i \in 1 .. Len(s) : s[i] \notin Range(UpperChars)

\* C16: Normalize is idempotent, Normalize(Normalize(V)) = Normalize(V) for
\* every identity value V; after Metadata.Validate() has returned, with nil
\* or with an error, the metadata's schemaVersion, eventSource and eventType
\* are normalized and its eventId is trimmed; a second Validate() at the
\* same clock value returns the same outcome and changes nothing.
C16_NormalizeInPlace ==
    /\ op.kind = "Normalize" =>
           /\ op.twice = op.once
           /\ IsNormalized(op.once)
    /\ op.kind = "Validate" =>
           /\ IsNormalized(op.meta.SchemaVersion)
           /\ IsNormalized(op.meta.EventSource)
           /\ IsNormalized(op.meta.EventType)
           /\ IsTrimmed(op.meta.EventId)
           /\ op.meta.EventTime = op.given.EventTime
           /\ op.calls = 2 => (op.err = op.errBefore /\ ~op.changed)

\* Validate was called twice on metadata that came with an untrimmed,
\* upper-case version and failed both times
C16_Witness ==
    /\ op.kind = "Validate"
    /\ op.calls = 2
    /\ ~IsNormalized(op.given.SchemaVersion)
    /\ op.err # NoErr
    /\ op.meta # op.given

\* Normalize changed a value with upper-case letters between white space
C16_NormalizeWitness ==
    /\ op.kind = "Normalize"
    /\ Len(op.value) = MaxLen
    /\ op.value[1] \in SpaceChars
    /\ Len(op.once) = 1
    /\ op.once # SubSeq(op.value, 2, 2)

(***************************************************************************)
(* The registry's calls against each other.                                *)
(***************************************************************************)
\* The registry's four calls alone
NextRegistry == CallRegister \/ CallGet \/ CallExists \/ CallListKeys \/ Return

RegistrySpec == Init /\ [][NextRegistry]_vars

\* A component of op's triple is empty once trimmed
OpTripleEmpty ==
    \/ Len(TrimSpace(op.version)) = 0
    \/ Len(TrimSpace(op.source)) = 0
    \/ Len(TrimSpace(op.type)) = 0

\* The errors the registry returns for an empty component
InvalidKeyErrors ==
    {Err("EmptySchemaVersion"), Err("EmptyEventSource"), Err("EmptyEventType")}

\* C13: ExistsEventFactory never fails and agrees with GetEventFactory in
\* every registry state, true exactly for the triples Get returns a factory
\* for; for a triple with a component empty after normalization Exists
\* returns false, Get returns an invalid-key error that is not
\* ErrEventFactoryNotFound, and Register returns an invalid-key error and
\* leaves the registry as it was, with a nil factory too.
C13_ExistsAgreesWithGet ==
    /\ \A v \in Versions, s \in Sources, t \in Types :
           ExistsEventFactory(registry, v, s, t)
               = (GetEventFactory(registry, v, s, t).err = NoErr
                  /\ GetEventFactory(registry, v, s, t).factory # NilFactory)
    /\ op.kind = "Exists" =>
           /\ op.exists \in BOOLEAN
           /\ op.exists = (GetEventFactory(op.before, op.version, op.source,
                                           op.type).err = NoErr)
           /\ OpTripleEmpty => ~op.exists
    /\ op.kind = "Get" =>
           /\ (op.err = NoErr)
                  = ExistsEventFactory(op.before, op.version, op.source, op.type)
           /\ (op.err = NoErr) = (op.factory # NilFactory)
           /\ OpTripleEmpty =>
                  /\ op.err \in InvalidKeyErrors
                  /\ ~Is(op.err, ErrEventFactoryNotFound)
    /\ (op.kind = "Register" /\ OpTripleEmpty) =>
           /\ op.err \in InvalidKeyErrors
           /\ registry = op.before

\* Exists found a factory under a triple written in another case
C13_Witness ==
    /\ op.kind = "Exists"
    /\ op.exists
    /\ op.version # Normalize(op.version)
    /\ GetEventFactory(registry, op.version, op.source, op.type).factory
           \in Factories

\* Register refused a nil factory under a triple with an empty source, in a
\* registry that holds factories
C13_InvalidWitness ==
    /\ op.kind = "Register"
    /\ OpTripleEmpty
    /\ op.factory = NilFactory
    /\ op.before # EmptyRegistry
    /\ op.err = Err("EmptyEventSource")

\* Two identity values that differ only by letter case or by white space
\* around them
SameIdentity(a, b) == ToLower(TrimSpace(a)) = ToLower(TrimSpace(b))

\* The keys whose registered triple is op's triple up to case and white space
OpRegisteredAs ==
    {k \in DOMAIN owner \cap DOMAIN op.before :
        /\ SameIdentity(op.version, owner[k][1])
        /\ SameIdentity(op.source, owner[k][2])
        /\ SameIdentity(op.type, owner[k][3])}

\* What Get and Exists resolve for a triple that was registered in another
\* spelling
ResolvesRegistered ==
    /\ (op.kind = "Get" /\ OpRegisteredAs # {}) =>
           /\ op.err = NoErr
           /\ \A k \in OpRegisteredAs : op.factory = first[k]
    /\ (op.kind = "Exists" /\ OpRegisteredAs # {}) => op.exists

\* C14 as stated: after a successful Register of a triple T, Get and Exists
\* resolve T's factory for every triple that differs from T only by letter
\* case or surrounding white space, and every Register of such a triple
\* fails with ErrEventFactoryExists.
C14_AsStated ==
    /\ ResolvesRegistered
    /\ (op.kind = "Register" /\ OpRegisteredAs # {}) =>
           Is(op.err, ErrEventFactoryExists)

\* C14: after a successful Register of a triple T, Get and Exists resolve
\* T's factory for every triple that differs from T only by letter case or
\* surrounding white space; a Register of such a triple leaves the registry
\* as it was and fails, with ErrEventFactoryExists when the factory passed
\* is not nil and with the nil-factory error when it is.
C14_NormalizedEqual ==
    /\ ResolvesRegistered
    /\ (op.kind = "Register" /\ OpRegisteredAs # {}) =>
           /\ registry = op.before
           /\ op.factory # NilFactory => Is(op.err, ErrEventFactoryExists)
           /\ op.factory = NilFactory => op.err = Err("NilFactory")
    /\ \A v \in Versions, t \in Types, s \in Sources :
           GetEventFactory(registry, v, s, t)
               = GetEventFactory(registry, ToLower(TrimSpace(v)), s,
                                 ToLower(TrimSpace(t)))

\* Get resolved a factory under a triple spelled in upper case with white
\* space, and so differently from what the registry keeps
C14_Witness ==
    /\ op.kind = "Get"
    /\ OpRegisteredAs # {}
    /\ op.version = <<" ", "V", "1">>
    /\ op.type = <<"T", " ">>
    /\ op.factory \in Factories

\* Register refused such a triple with ErrEventFactoryExists
C14_RegisterWitness ==
    /\ op.kind = "Register"
    /\ OpRegisteredAs # {}
    /\ op.version = <<" ", "V", "1">>
    /\ op.err = Err(ErrEventFactoryExists)

(***************************************************************************)
(* subscriber.Subscribe.  transport is what the transport's Subscribe      *)
(* returns when called: a subscription id and an error.  The result holds  *)
(* what Subscribe returns and the calls it made to the transport, each     *)
(* with its topic, its group option and whether it came with a callback.   *)
(***************************************************************************)
NilHandler == "nil"

SubscribeResult(id, err, calls) == [id |-> id, err |-> err, calls |-> calls]

\* Subscribe without its checks: the transport is called whatever comes
SubscribeUnchecked(topic, group, handler, transport) ==
    SubscribeResult(transport.id, transport.err,
                    <<[topic |-> topic, group |-> group, callback |-> TRUE]>>)

\* Subscribe after strings.TrimSpace of the topic and of the group
SubscribeChecked(topic, group, handler, transport) ==
    IF Len(topic) = 0 THEN SubscribeResult(<<>>, Err("EmptyTopic"), <<>>)
    ELSE IF Len(group) = 0 THEN SubscribeResult(<<>>, Err("EmptyGroup"), <<>>)
    ELSE IF handler = NilHandler
    THEN SubscribeResult(<<>>, Err("NilHandler"), <<>>)
    ELSE SubscribeResult(transport.id, transport.err,
             <<[topic |-> topic, group |-> group, callback |-> TRUE]>>)

Subscribe(topic, group, handler, transport) ==
    SubscribeChecked(TrimSpace(topic), TrimSpace(group), handler, transport)

Groups == {<<"g">>, <<" ", "g", "\t">>, <<" ">>, <<>>}

\* What the transport's Subscribe may return
TransportSubscribes ==
    {[id |-> <<"1">>, err |-> NoErr],
     [id |-> <<>>, err |-> Err("TransportDown")],
     [id |-> <<"1">>, err |-> Err("TransportDown")]}

CallSubscribe ==
    /\ CanCall
    /\ \E topic \in Topics, group \in Groups,
          handler \in Handlers \cup {NilHandler},
          transport \in TransportSubscribes :
          op' = [kind |-> "Subscribe", topic |-> topic, group |-> group,
                 handler |-> handler, transport |-> transport,
                 id |-> Subscribe(topic, group, handler, transport).id,
                 err |-> Subscribe(topic, group, handler, transport).err,
                 calls |-> Subscribe(topic, group, handler, transport).calls]
    /\ UNCHANGED <<registry, wire, hadPanic, crashed, cvars, first, owner>>

NextSubscribe == CallSubscribe \/ Return

SubscribeSpec == Init /\ [][NextSubscribe]_vars

SubscribeInputBad ==
    \/ Len(TrimSpace(op.topic)) = 0
    \/ Len(TrimSpace(op.group)) = 0
    \/ op.handler = NilHandler

\* C15: when the topic or the group is empty after trimming, or the handler
\* is nil, Subscribe returns an error and never calls the transport's
\* subscribe, so that no callback is registered; otherwise it calls the
\* transport's subscribe exactly once, with the trimmed topic, the trimmed
\* group and a callback, and returns the transport's subscription id and
\* error as they are.
C15_SubscribeChecked ==
    op.kind = "Subscribe" =>
        /\ SubscribeInputBad => (op.err # NoErr /\ op.calls = <<>>)
        /\ ~SubscribeInputBad =>
               /\ Len(op.calls) = 1
               /\ op.calls[1].topic = TrimSpace(op.topic)
               /\ op.calls[1].group = TrimSpace(op.group)
               /\ op.calls[1].callback
               /\ op.id = op.transport.id
               /\ op.err = op.transport.err

\* Subscribe passed an untrimmed topic and group on, trimmed, and returned
\* the error of the transport
C15_Witness ==
    /\ op.kind = "Subscribe"
    /\ ~SubscribeInputBad
    /\ op.topic # TrimSpace(op.topic)
    /\ op.group # TrimSpace(op.group)
    /\ Len(op.calls) = 1
    /\ op.err = Err("TransportDown")

\* Subscribe refused a nil handler without calling the transport
C15_NilWitness ==
    /\ op.kind = "Subscribe"
    /\ op.handler = NilHandler
    /\ Len(TrimSpace(op.topic)) > 0
    /\ Len(TrimSpace(op.group)) > 0
    /\ op.calls = <<>>
    /\ op.err # NoErr

(***************************************************************************)
(* decodeEvent called on its own, and through the delivery callback.       *)
(***************************************************************************)
\* The state after sub.decodeEvent(data) returned r (or panicked)
Decoded(data, now, r) ==
    /\ op' = [kind |-> "Decode", data |-> data, now |-> now,
              before |-> registry, err |-> r.err, event |-> r.event,
              trace |-> r.trace]
    /\ crashed' = r.panic

\* Bytes decodeEvent may be given: the bodies above, and envelopes with any
\* metadata and any payload
DecodeBodies ==
    Bodies
    \cup {MarshalEnvelope([Metadata |-> Ptr(m), Payload |-> pl]) :
             m \in Metas, pl \in Payloads}

CallDecode ==
    /\ CanCall
    /\ \E data \in DecodeBodies, now \in Clock :
          Decoded(data, now, decodeEvent(registry, data, now))
    /\ UNCHANGED <<registry, wire, hadPanic, cvars, first, owner>>

NextDecode == CallRegister \/ CallDecode \/ CallDeliver \/ Return

DecodeSpec == Init /\ [][NextDecode]_vars

\* The bytes op's decode was given
DecBody == IF op.kind = "Decode" THEN op.data ELSE OpBody

DecMeta == MetaNormalize(Deref(UnmarshalMetadata(DecBody.metadata)))

DecKey ==
    buildEventFactoryKey(DecMeta.SchemaVersion, DecMeta.EventSource,
                         DecMeta.EventType)

DecPayload == DecBody.payload.of

DecInstanceMeta == Deref(UnmarshalMetadata(DecPayload.meta))

Failure(kind, ran) == [err |-> kind, ran |-> ran]

\* The first step of decode that fails on op's input, in the order of the
\* pipeline, and the number of traced steps run by then; "" when none fails
FirstFailure ==
    IF DecBody.t = "empty" THEN Failure("EmptyData", 0)
    ELSE IF DecBody.t # "envelope" THEN Failure("EnvelopeDecodeFailed", 1)
    ELSE IF DecBody.metadata.t # "object" THEN Failure("MissingMetadata", 1)
    ELSE IF MetaCheck(DecMeta, op.now) # NoErr THEN Failure("InvalidMetadata", 2)
    ELSE IF DecBody.payload.t # "base64" \/ DecPayload.t = "empty"
    THEN Failure("EmptyEventPayload", 2)
    ELSE IF DecKey \notin DOMAIN op.before THEN Failure("GetFactoryFailed", 3)
    ELSE IF op.before[DecKey] \notin {"fA", "fB"}
    THEN Failure("EventInstantiationFailed", 4)
    ELSE IF DecPayload.t \notin {"event", "emptyobject"}
    THEN Failure("EventDecodeFailed", 5)
    ELSE IF DecPayload.t = "event" /\ DecPayload.data = "invalid"
    THEN Failure("InvalidDecodedEvent", 6)
    ELSE IF DecPayload.t = "emptyobject" \/ DecPayload.meta.t # "object"
    THEN Failure("MissingDecodedMetadata", 7)
    ELSE IF DecInstanceMeta.SchemaVersion # DecMeta.SchemaVersion
    THEN Failure("SchemaVersionMismatch", 8)
    ELSE IF DecInstanceMeta.EventId # DecMeta.EventId
    THEN Failure("EventIdMismatch", 8)
    ELSE IF DecInstanceMeta.EventSource # DecMeta.EventSource
    THEN Failure("EventSourceMismatch", 8)
    ELSE IF DecInstanceMeta.EventType # DecMeta.EventType
    THEN Failure("EventTypeMismatch", 8)
    ELSE Failure("", 8)

\* op's decode stopped at the first failing step: its error is that step's
\* and its trace ends with it
StoppedAtFirstFailure ==
    /\ op.trace = SubSeq(DecodeSteps, 1, FirstFailure.ran)
    /\ FirstFailure.err # "" => (op.err # NoErr /\ op.err[1] = FirstFailure.err)

\* C17: decode is a strict ordered pipeline: the first failing step, in the
\* order empty input, envelope parse, nil metadata, invalid metadata, empty
\* payload, registry lookup, factory call, payload parse, event.Validate,
\* nil instance metadata, schemaVersion, eventId, eventSource and eventType
\* match, gives the returned error, and no later step runs; the handler is
\* invoked at most once per delivery and only after all steps succeeded.
C17_StrictPipeline ==
    /\ op.kind = "Decode" =>
           /\ StoppedAtFirstFailure
           /\ (FirstFailure.err = "") = (op.err = NoErr)
           /\ (op.err = NoErr) = (op.event # NilPtr)
    /\ (op.kind = "Deliver" /\ op.decodeStarted) =>
           /\ StoppedAtFirstFailure
           /\ Len(op.invoked) <= 1
           /\ (op.invoked # <<>>) = (FirstFailure.err = "")
    /\ (op.kind = "Deliver" /\ ~op.decodeStarted) =>
           (op.invoked = <<>> /\ op.trace = <<>>)

\* An envelope with invalid metadata and an empty payload: decode stops at
\* the metadata, before the payload check and the lookup
C17_Witness ==
    /\ op.kind = "Decode"
    /\ op.before # EmptyRegistry
    /\ FirstFailure.err = "InvalidMetadata"
    /\ DecPayload.t = "empty"
    /\ op.trace = <<"unmarshalEnvelope", "validateMetadata">>
    /\ op.err[1] = "InvalidMetadata"

\* The last step of all is the first to fail
C17_LastStepWitness ==
    /\ op.kind = "Decode"
    /\ FirstFailure.err = "EventTypeMismatch"
    /\ op.err = Err("EventTypeMismatch")

(***************************************************************************)
(* The registry called with identity values that hold the character the    *)
(* composite key is joined with.                                           *)
(***************************************************************************)
KeyVersions == {<<"a">>, <<"a", "|", "b">>, <<"A", " ">>}

KeySources == {<<"c">>, <<"b", "|", "c">>}

KeyTypes == {<<"t">>}

CallRegisterKey ==
    /\ CanCall
    /\ \E v \in KeyVersions, s \in KeySources, t \in KeyTypes,
          f \in {"fA", "fB"} :
          Registered(v, s, t, f, RegisterEventFactory(registry, v, s, t, f))
    /\ UNCHANGED <<wire, hadPanic, crashed, cvars>>

CallGetKey ==
    /\ CanCall
    /\ \E v \in KeyVersions, s \in KeySources, t \in KeyTypes :
          Got(v, s, t, GetEventFactory(registry, v, s, t))
    /\ UNCHANGED <<registry, wire, hadPanic, crashed, cvars, first, owner>>

NextKey == CallRegisterKey \/ CallGetKey \/ Return

KeySpec == Init /\ [][NextKey]_vars

\* The normalized triples registered with success so far
OwnerTriples == {owner[k] : k \in DOMAIN owner}

OpTriple == NormTriple(op.version, op.source, op.type)

\* C18: composite keys are injective on normalized triples, also when a
\* component holds the separator '|': GetEventFactory(v, s, t) returns a
\* factory only if a RegisterEventFactory call with the same normalized
\* (v, s, t) succeeded earlier, and registering a triple whose normalized
\* form was never registered never fails with ErrEventFactoryExists.
C18_KeysInjective ==
    /\ (op.kind = "Get" /\ op.err = NoErr) => OpTriple \in OwnerTriples
    /\ (op.kind = "Register" /\ Is(op.err, ErrEventFactoryExists))
           => OpTriple \in OwnerTriples
    /\ \A k \in DOMAIN registry :
           k = buildEventFactoryKey(owner[k][1], owner[k][2], owner[k][3])

\* The events op's decode returned or handed to the application handler
HandedEvents ==
    IF op.kind = "Decode"
    THEN {Deref(x) : x \in {op.event} \ {NilPtr}}
    ELSE IF op.kind = "Deliver"
    THEN {Deref(op.invoked[i].event) : i \in 1 .. Len(op.invoked)}
    ELSE {}

\* The factory the registry held for the identity triple the event reports
FactoryOf(event) ==
    GetEventFactory(op.before, Deref(event.Meta).SchemaVersion,
                    Deref(event.Meta).EventSource, Deref(event.Meta).EventType)

PanicFactories == {"fPanic", "fV", "fM"}

PanicHandlers == Handlers \cup {"errClear"}

\* RegisterEventFactory for the identity of BaseMeta
CallRegisterPanicking ==
    /\ CanCall
    /\ \E f \in Factories \cup PanicFactories :
          Registered(BaseMeta.SchemaVersion, BaseMeta.EventSource,
                     BaseMeta.EventType, f,
                     RegisterEventFactory(registry, BaseMeta.SchemaVersion,
                                          BaseMeta.EventSource,
                                          BaseMeta.EventType, f))
    /\ UNCHANGED <<wire, hadPanic, crashed, cvars>>

\* One run of the delivery callback
CallDeliverPanicking ==
    /\ CanCall
    /\ \E d \in Deliveries, now \in Clock, handler \in PanicHandlers :
          Delivered(d, NilPtr, now, handler,
                    wrapHandler(registry, d, now, handler))
    /\ UNCHANGED <<registry, wire, cvars, first, owner>>

NextPanic == CallRegisterPanicking \/ CallDeliverPanicking \/ Return

PanicSpec == Init /\ [][NextPanic]_vars

\* The factory decode calls for the delivery in op
OpFactory == op.before[EnvKey]

\* Decode of the delivery in op calls a registered factory
ReachesFactory == EnvelopeOk /\ EnvKey \in DOMAIN op.before

\* The payload of the delivery in op fills the instance
PayloadFills == OpPayload.t \in {"event", "emptyobject"}

\* The filled instance is valid
InstanceValid == OpPayload.t = "event" => OpPayload.data # "invalid"

FactoryPanics == ReachesFactory /\ OpFactory = "fPanic"

ValidatePanics == ReachesFactory /\ OpFactory = "fV" /\ PayloadFills

MetadataPanics ==
    ReachesFactory /\ OpFactory = "fM" /\ PayloadFills /\ InstanceValid

WrapPanics == op.handler = "errClear" /\ Len(op.invoked) = 1

\* C20: no panic leaves the delivery callback, whatever the delivery: when
\* the registered factory panics, or Validate() or Metadata() of the decoded
\* event panics, the callback returns a non-nil error and the handler is not
\* invoked; when wrapping the handler's error panics the callback returns a
\* non-nil error; and the callback returns nil only when the handler was
\* invoked and returned nil.
C20_WholeCallbackContained ==
    /\ ~crashed
    /\ op.kind = "Deliver" =>
          /\ (FactoryPanics \/ ValidatePanics \/ MetadataPanics)
                 => (op.err # NoErr /\ op.invoked = <<>>)
          /\ WrapPanics => op.err # NoErr
          /\ op.err = NoErr => (Len(op.invoked) = 1 /\ op.handler = "ok")

\* The registered factory panicked and the callback returned an error
C20_Witness ==
    /\ op.kind = "Deliver"
    /\ FactoryPanics
    /\ op.trace = Ran(4)
    /\ op.err # NoErr
    /\ ~crashed

C20_ValidateWitness ==
    op.kind = "Deliver" /\ ValidatePanics /\ op.trace = Ran(6) /\ ~crashed

C20_MetadataWitness ==
    op.kind = "Deliver" /\ MetadataPanics /\ op.trace = Ran(7) /\ ~crashed

C20_WrapWitness ==
    op.kind = "Deliver" /\ WrapPanics /\ op.err # NoErr /\ ~crashed

C20_NilWitness ==
    op.kind = "Deliver" /\ op.err = NoErr /\ registry # EmptyRegistry

=============================================================================
